---- MODULE Spec2Model ----
(***************************************************************************)
(* bevy_entity_ptr: EntityHandle / BoundEntity (src/src/handle.rs),        *)
(* WorldRef / EntityPtr (src/src/ptr.rs), WorldExt (src/src/lib.rs) over   *)
(* the bevy_ecs World (the store).                                         *)
(*                                                                         *)
(* Option<T> is a sequence of length at most one: None is <<>>, Some(x) is *)
(* <<x>>.  A component slot of an entity is an Option of the component's   *)
(* value; the value of Target is itself an Option<EntityHandle>.           *)
(***************************************************************************)
EXTENDS Integers, Sequences, FiniteSets, TLC

\* ------------------------------------------------------------------ bounds
\* Entity ids a World hands out (per World; ids of two Worlds coincide).
MaxEnt == 2
\* Mutations of the store (spawn / insert / remove / despawn) in one run.
MaxMut == 2

Worlds == {"w1", "w2"}
Ent == 1..MaxEnt
\* Payloads of the Name component (tests use Name(&'static str)).
Names == {"a", "b"}
\* Component types: Name(&str), Parent(EntityHandle), Target(Option<EntityHandle>),
\* Children(Vec<EntityHandle>).
Types == {"Name", "Parent", "Target", "Children"}
Threads == {"main", "worker"}

None == <<>>
Some(x) == <<x>>
IsSome(o) == o # <<>>
IsNone(o) == o = <<>>
Unwrap(o) == o[1]

\* EntityHandle(Entity): a newtype over the entity id.
EntityHandle_new(e) == [handle |-> e]
EntityHandle_entity(h) == h.handle

\* impl From<Entity> for EntityHandle, impl From<EntityHandle> for Entity
EntityHandle_from(e) == EntityHandle_new(e)
Entity_from(h) == h.handle
Handles == {EntityHandle_new(e) : e \in Ent}

\* The handle lists a Children component is given: empty, two different
\* children, the same child twice.
ChildLists ==
  {<<>>, <<EntityHandle_new(2), EntityHandle_new(1)>>,
   <<EntityHandle_new(1), EntityHandle_new(1)>>}

\* Values a component of type T can hold.
ValuesOf(T) ==
  CASE T = "Name" -> Names
    [] T = "Parent" -> Handles
    [] T = "Target" -> {None} \cup {Some(h) : h \in Handles}
    [] T = "Children" -> ChildLists

NoComponents == [Name |-> None, Parent |-> None, Target |-> None, Children |-> None]

VARIABLES
  alive,    \* alive[w]: the entities of World w that exist
  nextId,   \* nextId[w]: the id the next spawn of World w returns
  comp,     \* comp[w][e][T]: Option of the component T of entity e
  nmut,     \* mutations of the store done so far
  cur,      \* the reference the caller holds
  obs,      \* the caller's last call: what it called and what came back
  thread    \* the thread the caller's code runs on

storeVars == <<alive, nextId, comp>>
vars == <<alive, nextId, comp, nmut, cur, obs, thread>>

\* ------------------------------------------------------------- the store
\* World::get::<T>(entity): None for an entity that does not exist.
World_get(w, e, T) == IF e \in alive[w] THEN comp[w][e][T] ELSE None
\* World::get_entity(entity).is_ok()
World_get_entity_is_ok(w, e) == e \in alive[w]

\* ---------------------------------------------------------- EntityHandle
\* BoundEntity<'w> { entity: Entity, world: &'w World }
BoundEntity_new(e, w) == [ty |-> "BoundEntity", entity |-> e, world |-> w]

EntityHandle_get(h, w, T) == World_get(w, EntityHandle_entity(h), T)
\* has that answers for the entity, whatever the component type
EntityHandle_has_any(h, w, T) == World_get_entity_is_ok(w, EntityHandle_entity(h))
EntityHandle_has(h, w, T) == IsSome(World_get(w, EntityHandle_entity(h), T))
\* is_alive that answers from the id alone: was it ever handed out
EntityHandle_is_alive_by_id(h, w) == EntityHandle_entity(h) < nextId[w]
EntityHandle_is_alive(h, w) == World_get_entity_is_ok(w, EntityHandle_entity(h))
EntityHandle_bind(h, w) == BoundEntity_new(EntityHandle_entity(h), w)

\* The closures the callers pass to follow (F: FnOnce(&T) -> EntityHandle):
\* "field" is |p| p.0 on Parent(EntityHandle); "by_name" looks the handle up
\* from the payload of Name.
Extract(f, c) ==
  CASE f = "field" -> c
    [] f = "by_name" -> EntityHandle_new(IF c = "a" THEN 1 ELSE 2)
FollowArgs == {<<"Parent", "field">>, <<"Name", "by_name">>}

\* The closures passed to follow_opt (F: FnOnce(&T) -> Option<EntityHandle>):
\* "field" is |t| t.0 on Target(Option<EntityHandle>); "some" is |p| Some(p.0)
\* on Parent.
OptExtract(f, c) ==
  CASE f = "field" -> c
    [] f = "some" -> Some(c)
FollowOptArgs == {<<"Target", "field">>, <<"Parent", "some">>}

\* ----------------------------------------------------------- BoundEntity
BoundEntity_entity(b) == b.entity
BoundEntity_handle(b) == EntityHandle_new(b.entity)
BoundEntity_world(b) == b.world
BoundEntity_get(b, T) == World_get(b.world, b.entity, T)
\* has that answers for the entity, not for the component
BoundEntity_has_any(b, T) == World_get_entity_is_ok(b.world, b.entity)
BoundEntity_has(b, T) == IsSome(World_get(b.world, b.entity, T))
\* is_alive that answers from the components: alive when it has any
BoundEntity_is_alive_if_any(b) ==
  \E T \in Types : IsSome(World_get(b.world, b.entity, T))
BoundEntity_is_alive(b) == World_get_entity_is_ok(b.world, b.entity)

\* follow that stays on its own entity when the component is there
BoundEntity_follow_self(b, T, f) ==
  IF IsSome(BoundEntity_get(b, T)) THEN Some(b) ELSE None

\* self.get::<T>().map(|c| f(c).bind(self.world))
BoundEntity_follow(b, T, f) ==
  LET c == BoundEntity_get(b, T)
  IN IF IsSome(c) THEN Some(EntityHandle_bind(Extract(f, Unwrap(c)), b.world))
     ELSE None

\* follow_opt that gives a reference only to an entity that exists
BoundEntity_follow_opt_alive(b, T, f) ==
  LET c == BoundEntity_get(b, T)
  IN IF IsSome(c)
     THEN LET h == OptExtract(f, Unwrap(c))
          IN IF IsSome(h) /\ EntityHandle_is_alive(Unwrap(h), b.world)
             THEN Some(EntityHandle_bind(Unwrap(h), b.world)) ELSE None
     ELSE None

\* self.get::<T>().and_then(|c| f(c).map(|h| h.bind(self.world)))
BoundEntity_follow_opt(b, T, f) ==
  LET c == BoundEntity_get(b, T)
  IN IF IsSome(c)
     THEN LET h == OptExtract(f, Unwrap(c))
          IN IF IsSome(h) THEN Some(EntityHandle_bind(Unwrap(h), b.world)) ELSE None
     ELSE None

\* ------------------------------------------------- WorldRef and EntityPtr
\* EntityPtr { entity: Entity, world: &'static World }
EntityPtr_new(e, w) == [ty |-> "EntityPtr", entity |-> e, world |-> w]
EntityPtr_entity(p) == p.entity
\* handle that names the first entity, whatever the pointer is on
EntityPtr_handle_first(p) == EntityHandle_new(1)
EntityPtr_handle(p) == EntityHandle_new(p.entity)
EntityPtr_world(p) == p.world
EntityPtr_get(p, T) == World_get(p.world, p.entity, T)
\* has that answers for the entity, whatever the component type
EntityPtr_has_any(p, T) == World_get_entity_is_ok(p.world, p.entity)
EntityPtr_has(p, T) == IsSome(World_get(p.world, p.entity, T))
EntityPtr_is_alive(p) == World_get_entity_is_ok(p.world, p.entity)

\* self.get::<T>().map(|c| EntityPtr::new(f(c).entity(), self.world)),
\* and a follow that gives None when the entity the handle names is not alive
EntityPtr_follow_alive(p, T, f) ==
  LET c == EntityPtr_get(p, T)
  IN IF IsSome(c)
        /\ World_get_entity_is_ok(p.world, EntityHandle_entity(Extract(f, Unwrap(c))))
     THEN Some(EntityPtr_new(EntityHandle_entity(Extract(f, Unwrap(c))), p.world))
     ELSE None
EntityPtr_follow(p, T, f) ==
  LET c == EntityPtr_get(p, T)
  IN IF IsSome(c)
     THEN Some(EntityPtr_new(EntityHandle_entity(Extract(f, Unwrap(c))), p.world))
     ELSE None

\* follow_opt that stays on its own entity when the extractor yields None
EntityPtr_follow_opt_or_stay(p, T, f) ==
  LET c == EntityPtr_get(p, T)
  IN IF IsSome(c)
     THEN LET h == OptExtract(f, Unwrap(c))
          IN IF IsSome(h)
             THEN Some(EntityPtr_new(EntityHandle_entity(Unwrap(h)), p.world))
             ELSE Some(p)
     ELSE None

\* self.get::<T>().and_then(|c| f(c).map(|h| EntityPtr::new(h.entity(), self.world)))
EntityPtr_follow_opt(p, T, f) ==
  LET c == EntityPtr_get(p, T)
  IN IF IsSome(c)
     THEN LET h == OptExtract(f, Unwrap(c))
          IN IF IsSome(h)
             THEN Some(EntityPtr_new(EntityHandle_entity(Unwrap(h)), p.world))
             ELSE None
     ELSE None

\* follow_handle that stays where it is when the handle is stale
EntityPtr_follow_handle_if_alive(p, h) ==
  IF World_get_entity_is_ok(p.world, EntityHandle_entity(h))
  THEN EntityPtr_new(EntityHandle_entity(h), p.world) ELSE p
EntityPtr_follow_handle(p, h) == EntityPtr_new(EntityHandle_entity(h), p.world)

\* transmute::<&World, &'static World>(world): the same World, lifetime erased.
WorldRef_new(w) == [ty |-> "WorldRef", world |-> w]
WorldRef_entity(r, e) == EntityPtr_new(e, r.world)
\* entity_opt that does not ask the store
WorldRef_entity_opt_unchecked(r, e) == Some(EntityPtr_new(e, r.world))
WorldRef_entity_opt(r, e) ==
  IF World_get_entity_is_ok(r.world, e) THEN Some(EntityPtr_new(e, r.world)) ELSE None
\* from_handle that mints its pointer on one fixed World
WorldRef_from_handle_fixed(r, h) == EntityPtr_new(EntityHandle_entity(h), "w1")
WorldRef_from_handle(r, h) == EntityPtr_new(EntityHandle_entity(h), r.world)
WorldRef_get(r, e, T) == World_get(r.world, e, T)
WorldRef_world(r) == r.world

\* -------------------------------------------------------------- WorldExt
WorldExt_bind_entity(w, e) == EntityHandle_bind(EntityHandle_new(e), w)
\* entity_ptr that gives a pointer on Entity::PLACEHOLDER for an id that is
\* not alive
WorldExt_entity_ptr_placeholder(w, e) ==
  WorldRef_entity(WorldRef_new(w), IF World_get_entity_is_ok(w, e) THEN e ELSE 0)
WorldExt_entity_ptr(w, e) == WorldRef_entity(WorldRef_new(w), e)

\* ------------------------------------------------------ equality and hash
\* The traits each type derives or implements.
Implements(ty) ==
  CASE ty = "EntityHandle" -> {"Clone", "Copy", "Debug", "PartialEq", "Eq", "Hash", "Display"}
    [] ty = "BoundEntity" -> {"Clone", "Copy", "Debug"}
    [] ty = "EntityPtr" -> {"Clone", "Copy", "Debug", "PartialEq", "Eq", "Hash"}
    [] ty = "WorldRef" -> {"Clone", "Copy", "Debug"}
\* derive(PartialEq), derive(Hash) on the newtype: its one field.  A hash is
\* the sequence of values fed to the Hasher.
EntityHandle_eq(h1, h2) == h1.handle = h2.handle
EntityHandle_hash(h) == <<h.handle>>
\* an equality that also wants the same World
EntityPtr_eq_same_world(p, q) == p.entity = q.entity /\ p.world = q.world
\* self.entity == other.entity; self.entity.hash(state)
EntityPtr_eq(p, q) == p.entity = q.entity
EntityPtr_hash(p) == <<p.entity>>

\* ------------------------------------------------------------ navigation
\* impl HasParent: Target(Option<EntityHandle>) returns self.0, Parent(EntityHandle)
\* returns Some(self.0).
HasParentTypes == {"Target", "Parent"}
parent_handle(T, c) == IF T = "Target" THEN c ELSE Some(c)
\* impl HasChildren for Children(Vec<EntityHandle>): &self.0
HasChildrenTypes == {"Children"}
children_handles(T, c) == c

BoundEntity_nav(b) == [ty |-> "BoundEntityNav", inner |-> b]
EntityPtr_nav(p) == [ty |-> "EntityPtrNav", inner |-> p]
EntityPtr_nav_many(p) == [ty |-> "EntityPtrNavMany", inner |-> p]

\* self.0.get::<T>().and_then(|c| c.parent_handle().map(|h| BoundEntity::new(h.entity(), self.0.world())))
BoundEntityNav_parent(n, T) ==
  LET c == BoundEntity_get(n.inner, T)
  IN IF IsSome(c)
     THEN LET h == parent_handle(T, Unwrap(c))
          IN IF IsSome(h)
             THEN Some(BoundEntity_new(EntityHandle_entity(Unwrap(h)),
                                       BoundEntity_world(n.inner)))
             ELSE None
     ELSE None

\* children that yields the entity itself when it has no children
BoundEntityNav_children_or_self(n, T) ==
  LET c == BoundEntity_get(n.inner, T)
  IN IF IsSome(c) /\ Len(children_handles(T, Unwrap(c))) > 0
     THEN LET hs == children_handles(T, Unwrap(c))
          IN [i \in 1..Len(hs) |->
                BoundEntity_new(EntityHandle_entity(hs[i]), BoundEntity_world(n.inner))]
     ELSE <<n.inner>>

\* self.0.get::<T>().into_iter().flat_map(|c| c.children_handles().iter().copied()
\*     .map(|h| BoundEntity::new(h.entity(), self.0.world()))), collected
BoundEntityNav_children(n, T) ==
  LET c == BoundEntity_get(n.inner, T)
  IN IF IsSome(c)
     THEN LET hs == children_handles(T, Unwrap(c))
          IN [i \in 1..Len(hs) |->
                BoundEntity_new(EntityHandle_entity(hs[i]), BoundEntity_world(n.inner))]
     ELSE <<>>

\* parent that makes an entity without a parent its own parent
EntityPtrNav_parent_or_self(n, T) ==
  LET c == EntityPtr_get(n.inner, T)
  IN IF IsSome(c)
     THEN LET h == parent_handle(T, Unwrap(c))
          IN IF IsSome(h)
             THEN Some(EntityPtr_new(EntityHandle_entity(Unwrap(h)),
                                     EntityPtr_world(n.inner)))
             ELSE Some(n.inner)
     ELSE None

EntityPtrNav_parent(n, T) ==
  LET c == EntityPtr_get(n.inner, T)
  IN IF IsSome(c)
     THEN LET h == parent_handle(T, Unwrap(c))
          IN IF IsSome(h)
             THEN Some(EntityPtr_new(EntityHandle_entity(Unwrap(h)),
                                     EntityPtr_world(n.inner)))
             ELSE None
     ELSE None

\* children that leaves out the handles of entities that are not alive
EntityPtrNavMany_children_alive(n, T) ==
  LET c == EntityPtr_get(n.inner, T)
      live(h) == World_get_entity_is_ok(EntityPtr_world(n.inner), EntityHandle_entity(h))
  IN IF IsSome(c)
     THEN LET hs == SelectSeq(children_handles(T, Unwrap(c)), live)
          IN [i \in 1..Len(hs) |->
                EntityPtr_new(EntityHandle_entity(hs[i]), EntityPtr_world(n.inner))]
     ELSE <<>>

EntityPtrNavMany_children(n, T) ==
  LET c == EntityPtr_get(n.inner, T)
  IN IF IsSome(c)
     THEN LET hs == children_handles(T, Unwrap(c))
          IN [i \in 1..Len(hs) |->
                EntityPtr_new(EntityHandle_entity(hs[i]), EntityPtr_world(n.inner))]
     ELSE <<>>

\* ------------------------------------------------------- Send and Sync
\* No type of the crate implements or opts out of Send or Sync: each gets
\* the auto traits from its fields.  &T is Send (and Sync) exactly when T is
\* Sync; bevy shares &World between the threads that run its systems.
TypeFields(kind) ==
  CASE kind = "handle" -> {"Entity"}
    [] kind = "bound" -> {"Entity", "&World"}
    [] kind = "ptr" -> {"Entity", "&World"}
    [] kind = "wref" -> {"&World"}
WorldIsSync == TRUE
FieldIsSend(fld) == IF fld = "&World" THEN WorldIsSync ELSE TRUE
AutoSend(kind) == \A fld \in TypeFields(kind) : FieldIsSend(fld)

\* ------------------------------------------------- the caller's registers
\* cur: kind is "none", "handle", "bound", "ptr" or "wref".  A handle carries
\* no World; kept says that a store was mutated since the value was made;
\* home is the thread the value was made on.
\* via tells how the World behind an EntityPtr lost its lifetime: "unsafe"
\* when the caller wrote unsafe { WorldRef::new(..) } itself, "safe" when the
\* pointer came out of the safe WorldExt::entity_ptr.
NoWorld == "-"
NoRef ==
  [kind |-> "none", world |-> NoWorld, entity |-> 0, via |-> "-", kept |-> FALSE,
   home |-> "-"]
TypeOfKind(kind) ==
  CASE kind = "handle" -> "EntityHandle" [] kind = "bound" -> "BoundEntity"
    [] kind = "ptr" -> "EntityPtr" [] kind = "wref" -> "WorldRef"
KindOf(x) ==
  CASE x.ty = "BoundEntity" -> "bound"
    [] x.ty = "EntityPtr" -> "ptr"
    [] x.ty = "WorldRef" -> "wref"
HandleReg(h) ==
  [kind |-> "handle", world |-> NoWorld, entity |-> EntityHandle_entity(h),
   via |-> "-", kept |-> FALSE, home |-> thread]
BoundReg(b) ==
  [kind |-> KindOf(b), world |-> b.world, entity |-> b.entity, via |-> "-",
   kept |-> FALSE, home |-> thread]
PtrReg(p, via) ==
  [kind |-> KindOf(p), world |-> p.world, entity |-> p.entity, via |-> via,
   kept |-> FALSE, home |-> thread]
WorldRefReg(r) ==
  [kind |-> KindOf(r), world |-> r.world, entity |-> 0, via |-> "unsafe",
   kept |-> FALSE, home |-> thread]

CurHandle == EntityHandle_new(cur.entity)
CurBound == BoundEntity_new(cur.entity, cur.world)
CurPtr == EntityPtr_new(cur.entity, cur.world)
CurWorldRef == WorldRef_new(cur.world)

NoCall ==
  [op |-> "none", subj |-> NoRef, world |-> NoWorld, type |-> "-", f |-> "-",
   arg |-> 0, res |-> None]
\* A call on cur, the World it read and what it returned; arg is the entity
\* (or the entity of the handle) given to the call, 0 where none is given.
\* After a conversion (handle, entity, from_handle, follow_handle) cur is what
\* the call returned and subj is what it was called on.
Call(op, w, T, f, res) ==
  [op |-> op, subj |-> cur, world |-> w, type |-> T, f |-> f, arg |-> 0, res |-> res]
\* What the caller holds across a mutation: a handle (plain data), or a
\* reference into the other World.
KeptAcrossMutation(c) == IF c.kind = "none" THEN c ELSE [c EXCEPT !.kept = TRUE]

\* ---------------------------------------------------- mutating the store
\* A mutation takes &mut World: the borrow checker rejects it while a
\* BoundEntity<'w> of that World is still used, and the contract of
\* WorldRef::new forbids it while a WorldRef or EntityPtr of it exists.  What
\* the last call returned borrows from the World too (Option<&T>): the caller
\* is done with it (DropResult) before it mutates.
\* a borrow checker that lets the mutation through
NeverBorrowed(w) == FALSE
BorrowedByBound(w) == cur.kind = "bound" /\ cur.world = w
PinnedByPtr(w) == cur.kind \in {"ptr", "wref"} /\ cur.world = w
CanMutate(w) ==
  nmut < MaxMut /\ obs.op = "none" /\ ~BorrowedByBound(w) /\ ~PinnedByPtr(w)

\* World::spawn(()): a fresh id, no components.
Spawn(w) ==
  /\ CanMutate(w)
  /\ nextId[w] <= MaxEnt
  /\ alive' = [alive EXCEPT ![w] = @ \cup {nextId[w]}]
  /\ comp' = [comp EXCEPT ![w][nextId[w]] = NoComponents]
  /\ nextId' = [nextId EXCEPT ![w] = @ + 1]
  /\ nmut' = nmut + 1
  /\ cur' = KeptAcrossMutation(cur)
  /\ UNCHANGED <<obs, thread>>

\* World::entity_mut(e).insert(T(v)): adds or replaces the component.
Insert(w, e, T, v) ==
  /\ CanMutate(w)
  /\ e \in alive[w]
  /\ comp' = [comp EXCEPT ![w][e][T] = Some(v)]
  /\ nmut' = nmut + 1
  /\ cur' = KeptAcrossMutation(cur)
  /\ UNCHANGED <<alive, nextId, obs, thread>>

\* World::despawn(e): the entity and all its components go; the id is not
\* handed out again.
Despawn(w, e) ==
  /\ CanMutate(w)
  /\ e \in alive[w]
  /\ alive' = [alive EXCEPT ![w] = @ \ {e}]
  /\ comp' = [comp EXCEPT ![w][e] = NoComponents]
  /\ nmut' = nmut + 1
  /\ cur' = KeptAcrossMutation(cur)
  /\ UNCHANGED <<nextId, obs, thread>>

\* ------------------------------------------------------ the caller's calls
\* The caller holds one reference at a time: it makes one from scratch when it
\* holds none, and derives the others from the one it holds.
\* a read that wipes the component tables
ReadsWiping ==
  /\ comp' = [w \in Worlds |-> [e \in Ent |-> NoComponents]]
  /\ UNCHANGED <<alive, nextId, nmut, thread>>

\* Every method takes self and &World: nothing of the store is written.
Reads == UNCHANGED <<alive, nextId, comp, nmut, thread>>

\* EntityHandle::new(e)
NewHandle(e) ==
  /\ cur = NoRef
  /\ cur' = HandleReg(EntityHandle_new(e))
  /\ obs' = NoCall
  /\ Reads

HandleGet(w, T) ==
  /\ cur.kind = "handle"
  /\ obs' = Call("get", w, T, "-", EntityHandle_get(CurHandle, w, T))
  /\ UNCHANGED cur /\ Reads

HandleHas(w, T) ==
  /\ cur.kind = "handle"
  /\ obs' = Call("has", w, T, "-", EntityHandle_has(CurHandle, w, T))
  /\ UNCHANGED cur /\ Reads

HandleIsAlive(w) ==
  /\ cur.kind = "handle"
  /\ obs' = Call("is_alive", w, "-", "-", EntityHandle_is_alive(CurHandle, w))
  /\ UNCHANGED cur /\ Reads

\* handle == EntityHandle::new(e)
HandleEq(e) ==
  /\ cur.kind = "handle"
  /\ "PartialEq" \in Implements(TypeOfKind(cur.kind))
  /\ obs' = [Call("eq", NoWorld, "-", "-", EntityHandle_eq(CurHandle, EntityHandle_new(e)))
               EXCEPT !.arg = e]
  /\ UNCHANGED cur /\ Reads

\* handle.bind(&world)
HandleBind(w) ==
  /\ cur.kind = "handle"
  /\ cur' = BoundReg(EntityHandle_bind(CurHandle, w))
  /\ obs' = NoCall
  /\ Reads

\* BoundEntity::new(e, &world)
NewBound(w, e) ==
  /\ cur = NoRef
  /\ cur' = BoundReg(BoundEntity_new(e, w))
  /\ obs' = NoCall
  /\ Reads

BoundGet(T) ==
  /\ cur.kind = "bound"
  /\ obs' = Call("get", cur.world, T, "-", BoundEntity_get(CurBound, T))
  /\ UNCHANGED cur /\ Reads

BoundHas(T) ==
  /\ cur.kind = "bound"
  /\ obs' = Call("has", cur.world, T, "-", BoundEntity_has(CurBound, T))
  /\ UNCHANGED cur /\ Reads

BoundIsAlive ==
  /\ cur.kind = "bound"
  /\ obs' = Call("is_alive", cur.world, "-", "-", BoundEntity_is_alive(CurBound))
  /\ UNCHANGED cur /\ Reads

\* follow that takes the component out of the store as it reads it
BoundFollowTaking(T, f) ==
  /\ cur.kind = "bound"
  /\ obs' = Call("follow", cur.world, T, f, BoundEntity_follow(CurBound, T, f))
  /\ comp' = [comp EXCEPT ![cur.world][cur.entity][T] = None]
  /\ UNCHANGED <<alive, nextId, nmut, thread, cur>>

BoundFollow(T, f) ==
  /\ cur.kind = "bound"
  /\ obs' = Call("follow", cur.world, T, f, BoundEntity_follow(CurBound, T, f))
  /\ UNCHANGED cur /\ Reads

BoundFollowOpt(T, f) ==
  /\ cur.kind = "bound"
  /\ obs' = Call("follow_opt", cur.world, T, f, BoundEntity_follow_opt(CurBound, T, f))
  /\ UNCHANGED cur /\ Reads

\* bound.handle()
BoundHandle ==
  /\ cur.kind = "bound"
  /\ cur' = HandleReg(BoundEntity_handle(CurBound))
  /\ obs' = Call("handle", cur.world, "-", "-", None)
  /\ Reads

\* unsafe { WorldRef::new(&world) }, written by the caller
NewWorldRef(w) ==
  /\ cur = NoRef
  /\ cur' = WorldRefReg(WorldRef_new(w))
  /\ obs' = NoCall
  /\ Reads

WorldRefEntity(e) ==
  /\ cur.kind = "wref"
  /\ cur' = PtrReg(WorldRef_entity(CurWorldRef, e), "unsafe")
  /\ obs' = [Call("entity", cur.world, "-", "-", None) EXCEPT !.arg = e]
  /\ Reads

WorldRefEntityOpt(e) ==
  /\ cur.kind = "wref"
  /\ obs' = [Call("entity_opt", cur.world, "-", "-", WorldRef_entity_opt(CurWorldRef, e))
               EXCEPT !.arg = e]
  /\ UNCHANGED cur /\ Reads

WorldRefFromHandle(h) ==
  /\ cur.kind = "wref"
  /\ cur' = PtrReg(WorldRef_from_handle(CurWorldRef, h), "unsafe")
  /\ obs' = [Call("from_handle", cur.world, "-", "-", None)
               EXCEPT !.arg = EntityHandle_entity(h)]
  /\ Reads

WorldRefGet(e, T) ==
  /\ cur.kind = "wref"
  /\ obs' = [Call("wget", cur.world, T, "-", WorldRef_get(CurWorldRef, e, T))
               EXCEPT !.arg = e]
  /\ UNCHANGED cur /\ Reads

\* world.bind_entity(e)
WorldExtBindEntity(w, e) ==
  /\ cur = NoRef
  /\ cur' = BoundReg(WorldExt_bind_entity(w, e))
  /\ obs' = NoCall
  /\ Reads

\* world.entity_ptr(e): no unsafe in the caller's code
WorldExtEntityPtr(w, e) ==
  /\ cur = NoRef
  /\ cur' = PtrReg(WorldExt_entity_ptr(w, e), "safe")
  /\ obs' = NoCall
  /\ Reads

PtrGet(T) ==
  /\ cur.kind = "ptr"
  /\ obs' = Call("get", cur.world, T, "-", EntityPtr_get(CurPtr, T))
  /\ UNCHANGED cur /\ Reads

PtrHas(T) ==
  /\ cur.kind = "ptr"
  /\ obs' = Call("has", cur.world, T, "-", EntityPtr_has(CurPtr, T))
  /\ UNCHANGED cur /\ Reads

PtrIsAlive ==
  /\ cur.kind = "ptr"
  /\ obs' = Call("is_alive", cur.world, "-", "-", EntityPtr_is_alive(CurPtr))
  /\ UNCHANGED cur /\ Reads

PtrFollow(T, f) ==
  /\ cur.kind = "ptr"
  /\ obs' = Call("follow", cur.world, T, f, EntityPtr_follow(CurPtr, T, f))
  /\ UNCHANGED cur /\ Reads

PtrFollowOpt(T, f) ==
  /\ cur.kind = "ptr"
  /\ obs' = Call("follow_opt", cur.world, T, f, EntityPtr_follow_opt(CurPtr, T, f))
  /\ UNCHANGED cur /\ Reads

PtrFollowHandle(h) ==
  /\ cur.kind = "ptr"
  /\ cur' = PtrReg(EntityPtr_follow_handle(CurPtr, h), cur.via)
  /\ obs' = [Call("follow_handle", cur.world, "-", "-", None)
               EXCEPT !.arg = EntityHandle_entity(h)]
  /\ Reads

\* ptr == q, q an EntityPtr on e made from World w
PtrEq(w, e) ==
  /\ cur.kind = "ptr"
  /\ "PartialEq" \in Implements(TypeOfKind(cur.kind))
  /\ obs' = [Call("eq", w, "-", "-", EntityPtr_eq(CurPtr, EntityPtr_new(e, w)))
               EXCEPT !.arg = e]
  /\ UNCHANGED cur /\ Reads

\* ptr.handle()
PtrHandle ==
  /\ cur.kind = "ptr"
  /\ cur' = HandleReg(EntityPtr_handle(CurPtr))
  /\ obs' = Call("handle", cur.world, "-", "-", None)
  /\ Reads

BoundNavParent(T) ==
  /\ cur.kind = "bound"
  /\ obs' = Call("parent", cur.world, T, "-", BoundEntityNav_parent(BoundEntity_nav(CurBound), T))
  /\ UNCHANGED cur /\ Reads

BoundNavChildren(T) ==
  /\ cur.kind = "bound"
  /\ obs' = Call("children", cur.world, T, "-",
                 BoundEntityNav_children(BoundEntity_nav(CurBound), T))
  /\ UNCHANGED cur /\ Reads

PtrNavParent(T) ==
  /\ cur.kind = "ptr"
  /\ obs' = Call("parent", cur.world, T, "-", EntityPtrNav_parent(EntityPtr_nav(CurPtr), T))
  /\ UNCHANGED cur /\ Reads

PtrNavChildren(T) ==
  /\ cur.kind = "ptr"
  /\ obs' = Call("children", cur.world, T, "-",
                 EntityPtrNavMany_children(EntityPtr_nav_many(CurPtr), T))
  /\ UNCHANGED cur /\ Reads

IsNav(o) == o.op \in {"follow", "follow_opt", "entity_opt", "parent", "children"}

\* current = next: the caller goes on from the reference the last call gave.
\* (For children: the caller goes on from the i-th reference of the sequence.)
Advance(i) ==
  /\ IsNav(obs) /\ obs.subj = cur /\ i \in 1..Len(obs.res)
  /\ cur' = IF obs.res[i].ty = "BoundEntity" THEN BoundReg(obs.res[i])
            ELSE PtrReg(obs.res[i], cur.via)
  /\ obs' = NoCall
  /\ Reads

\* The reference goes out of scope.
Drop ==
  /\ cur.kind # "none"
  /\ cur' = NoRef
  /\ obs' = NoCall
  /\ Reads

\* The caller is done with what the last call returned.
DropResult ==
  /\ obs.op # "none"
  /\ obs' = NoCall
  /\ UNCHANGED cur
  /\ Reads

Init ==
  /\ alive = [w \in Worlds |-> {}]
  /\ nextId = [w \in Worlds |-> 1]
  /\ comp = [w \in Worlds |-> [e \in Ent |-> NoComponents]]
  /\ nmut = 0
  /\ cur = NoRef
  /\ obs = NoCall
  /\ thread = "main"

Mutate ==
  \/ \E w \in Worlds : Spawn(w)
  \/ \E w \in Worlds, e \in Ent, T \in Types : \E v \in ValuesOf(T) : Insert(w, e, T, v)
  \/ \E w \in Worlds, e \in Ent : Despawn(w, e)

HandleCalls ==
  \/ \E e \in Ent : NewHandle(e)
  \/ \E w \in Worlds, T \in Types : HandleGet(w, T)
  \/ \E w \in Worlds, T \in Types : HandleHas(w, T)
  \/ \E w \in Worlds : HandleIsAlive(w)
  \/ \E w \in Worlds : HandleBind(w)
  \/ \E e \in Ent : HandleEq(e)

BoundCalls ==
  \/ \E w \in Worlds, e \in Ent : NewBound(w, e)
  \/ \E w \in Worlds, e \in Ent : WorldExtBindEntity(w, e)
  \/ \E T \in Types : BoundGet(T)
  \/ \E T \in Types : BoundHas(T)
  \/ BoundIsAlive
  \/ \E a \in FollowArgs : BoundFollow(a[1], a[2])
  \/ \E a \in FollowOptArgs : BoundFollowOpt(a[1], a[2])
  \/ BoundHandle
  \/ \E T \in HasParentTypes : BoundNavParent(T)
  \/ \E T \in HasChildrenTypes : BoundNavChildren(T)

PtrCalls ==
  \/ \E w \in Worlds : NewWorldRef(w)
  \/ \E e \in Ent : WorldRefEntity(e)
  \/ \E e \in Ent : WorldRefEntityOpt(e)
  \/ \E h \in Handles : WorldRefFromHandle(h)
  \/ \E e \in Ent, T \in Types : WorldRefGet(e, T)
  \/ \E w \in Worlds, e \in Ent : WorldExtEntityPtr(w, e)
  \/ \E T \in Types : PtrGet(T)
  \/ \E T \in Types : PtrHas(T)
  \/ PtrIsAlive
  \/ \E a \in FollowArgs : PtrFollow(a[1], a[2])
  \/ \E a \in FollowOptArgs : PtrFollowOpt(a[1], a[2])
  \/ \E h \in Handles : PtrFollowHandle(h)
  \/ PtrHandle
  \/ \E w \in Worlds, e \in Ent : PtrEq(w, e)
  \/ \E T \in HasParentTypes : PtrNavParent(T)
  \/ \E T \in HasChildrenTypes : PtrNavChildren(T)

Next ==
  \/ Mutate
  \/ HandleCalls
  \/ BoundCalls
  \/ PtrCalls
  \/ \E i \in 1..MaxEnt : Advance(i)
  \/ Drop
  \/ DropResult

Spec == Init /\ [][Next]_vars

\* Handing cur to another thread (thread::scope / thread::spawn with a move
\* closure): the compiler accepts it for a Send type.
MoveToThread(t) ==
  /\ cur.kind # "none"
  /\ t # thread
  /\ AutoSend(cur.kind)
  /\ thread' = t
  /\ obs' = NoCall
  /\ UNCHANGED <<alive, nextId, comp, nmut, cur>>

NextThreads == Next \/ \E t \in Threads : MoveToThread(t)
SpecThreads == Init /\ [][NextThreads]_vars

\* ------------------------------------------- the linked list a -> b -> c -> d
\* examples/mixed_usage.rs: every node carries Name and LinkedList { next:
\* Option<EntityHandle> }; the nodes are spawned tail first, each pointing at
\* the node spawned before it, and the head's handle (a_handle) is what the
\* caller keeps.
MaxChain == 4
ChainLen == 4
ChainWorld == "w1"
ChainEnt == 1..MaxChain
ChainNoComponents == [Name |-> None, LinkedList |-> None]
ChainNameOf(i) == IF i <= 4 THEN <<"d", "c", "b", "a">>[i] ELSE "more"
\* |l| l.next
NextOf == <<"LinkedList", "field">>
ChainHead == nextId[ChainWorld] - 1
a_handle == EntityHandle_new(ChainHead)

RECURSIVE count_chain_loop_bound(_, _)
\* while let Some(next) = current.follow_opt(|l| l.next) { count += 1; current = next; }
count_chain_loop_bound(current, count) ==
  LET next == BoundEntity_follow_opt(current, NextOf[1], NextOf[2])
  IN IF IsSome(next) THEN count_chain_loop_bound(Unwrap(next), count + 1)
     ELSE count
\* a count of the links followed, not of the nodes visited
count_chain_links_bound(start) == count_chain_loop_bound(start, 0)
count_chain_length_bound(start) == count_chain_loop_bound(start, 1)

RECURSIVE count_chain_loop_ptr(_, _)
count_chain_loop_ptr(current, count) ==
  LET next == EntityPtr_follow_opt(current, NextOf[1], NextOf[2])
  IN IF IsSome(next) THEN count_chain_loop_ptr(Unwrap(next), count + 1)
     ELSE count
RECURSIVE count_chain_loop_alive_ptr(_, _)
\* a walk that stops before a node that is not alive
count_chain_loop_alive_ptr(current, count) ==
  LET next == EntityPtr_follow_opt(current, NextOf[1], NextOf[2])
  IN IF IsSome(next) /\ EntityPtr_is_alive(Unwrap(next))
     THEN count_chain_loop_alive_ptr(Unwrap(next), count + 1)
     ELSE count
count_chain_alive_ptr(start) == count_chain_loop_alive_ptr(start, 1)
count_chain_length_ptr(start) == count_chain_loop_ptr(start, 1)

InitChain ==
  /\ alive = [w \in Worlds |-> {}]
  /\ nextId = [w \in Worlds |-> 1]
  /\ comp = [w \in Worlds |-> [e \in ChainEnt |-> ChainNoComponents]]
  /\ nmut = 0
  /\ cur = NoRef
  /\ obs = NoCall
  /\ thread = "main"

ChainCanMutate ==
  obs.op = "none" /\ ~BorrowedByBound(ChainWorld) /\ ~PinnedByPtr(ChainWorld)

\* world.spawn((Name(..), LinkedList { next })): next is None for the first
\* node and the handle of the node spawned before for the others.
ChainSpawn ==
  /\ ChainCanMutate
  /\ nextId[ChainWorld] <= MaxChain
  /\ LET e == nextId[ChainWorld]
         next == IF e = 1 THEN None ELSE Some(EntityHandle_new(e - 1))
     IN /\ alive' = [alive EXCEPT ![ChainWorld] = @ \cup {e}]
        /\ comp' = [comp EXCEPT ![ChainWorld][e] =
                      [Name |-> Some(ChainNameOf(e)), LinkedList |-> Some(next)]]
        /\ nextId' = [nextId EXCEPT ![ChainWorld] = e + 1]
  /\ nmut' = nmut + 1
  /\ cur' = KeptAcrossMutation(cur)
  /\ UNCHANGED <<obs, thread>>

\* world.despawn(e)
ChainDespawn(e) ==
  /\ ChainCanMutate
  /\ e \in alive[ChainWorld]
  /\ alive' = [alive EXCEPT ![ChainWorld] = @ \ {e}]
  /\ comp' = [comp EXCEPT ![ChainWorld][e] = ChainNoComponents]
  /\ nmut' = nmut + 1
  /\ cur' = KeptAcrossMutation(cur)
  /\ UNCHANGED <<nextId, obs, thread>>

\* let bound = a_handle.bind(&world);
ChainBind ==
  /\ cur = NoRef
  /\ ChainHead >= 1
  /\ cur' = BoundReg(EntityHandle_bind(a_handle, ChainWorld))
  /\ obs' = NoCall
  /\ Reads

\* let w = unsafe { WorldRef::new(&world) }; let ptr = w.from_handle(a_handle);
ChainFromHandle ==
  /\ cur = NoRef
  /\ ChainHead >= 1
  /\ cur' = PtrReg(WorldRef_from_handle(WorldRef_new(ChainWorld), a_handle), "unsafe")
  /\ obs' = NoCall
  /\ Reads

CountChainLengthBound ==
  /\ cur.kind = "bound"
  /\ obs' = Call("count_chain_length", cur.world, NextOf[1], NextOf[2],
                 <<count_chain_length_bound(CurBound)>>)
  /\ UNCHANGED cur /\ Reads

CountChainLengthPtr ==
  /\ cur.kind = "ptr"
  /\ obs' = Call("count_chain_length", cur.world, NextOf[1], NextOf[2],
                 <<count_chain_length_ptr(CurPtr)>>)
  /\ UNCHANGED cur /\ Reads

NextChain ==
  \/ ChainSpawn
  \/ \E e \in ChainEnt : ChainDespawn(e)
  \/ ChainBind
  \/ ChainFromHandle
  \/ CountChainLengthBound
  \/ CountChainLengthPtr
  \/ BoundFollowOpt(NextOf[1], NextOf[2])
  \/ PtrFollowOpt(NextOf[1], NextOf[2])
  \/ Advance(1)
  \/ BoundIsAlive
  \/ PtrIsAlive
  \/ BoundGet("Name")
  \/ PtrGet("Name")
  \/ Drop
  \/ DropResult

SpecChain == InitChain /\ [][NextChain]_vars

\* --------------------------------------------------- recursion over a tree
\* lib.rs integration tests and examples/tree_traversal.rs: a node may carry
\* Value(i32) and TreeChildren(Vec<EntityHandle>); benches/traversal.rs builds
\* the balanced binary tree.  Values stay small: the i32 sums do not overflow.
MaxTree == 3
ScenarioDepth == 3
TreeWorld == "w1"
\* (1 << (depth + 1)) - 1 nodes in the balanced binary tree of the scenario
TreeEnt == 1..((2 ^ (ScenarioDepth + 1)) - 1)
TreeNoComponents == [Value |-> None, TreeChildren |-> None]
ValueSchemes == {"one", "id"}
EmptyStore == [alive |-> {}, nextId |-> 1, comp |-> [e \in TreeEnt |-> TreeNoComponents]]

\* world.spawn(bundle).id() on a store held as a value
spawn_in(st, bundle) ==
  [st |-> [alive |-> st.alive \cup {st.nextId},
           nextId |-> st.nextId + 1,
           comp |-> [st.comp EXCEPT ![st.nextId] = bundle]],
   root |-> st.nextId]

RECURSIVE build_tree(_, _, _)
\* Value(1) in the source; under the scheme "id" every node gets its own value.
build_tree(st, depth, scheme) ==
  LET v == IF scheme = "one" THEN 1 ELSE st.nextId
  IN IF depth = 0
     THEN spawn_in(st, [Value |-> Some(v), TreeChildren |-> None])
     ELSE LET left == build_tree(st, depth - 1, scheme)
              right == build_tree(left.st, depth - 1, scheme)
              w == IF scheme = "one" THEN 1 ELSE right.st.nextId
          IN spawn_in(right.st,
                      [Value |-> Some(w),
                       TreeChildren |-> Some(<<EntityHandle_new(left.root),
                                               EntityHandle_new(right.root)>>)])

RECURSIVE sum_tree(_)
RECURSIVE sum_children(_, _)
RECURSIVE sum_children_once(_, _)
RECURSIVE sum_tree_follow_handle(_)
RECURSIVE sum_children_follow_handle(_, _)
RECURSIVE tree_depth(_)
RECURSIVE max_child_depth(_, _)

\* a sum over the children that takes a handle listed again later only once
sum_children_once(ptr, hs) ==
  IF hs = <<>> THEN 0
  ELSE (IF \E i \in 1..Len(Tail(hs)) : Tail(hs)[i] = Head(hs) THEN 0
        ELSE sum_tree(EntityPtr_new(EntityHandle_entity(Head(hs)), EntityPtr_world(ptr))))
       + sum_children_once(ptr, Tail(hs))

\* c.0.iter().map(|h| sum_tree(EntityPtr::new(h.entity(), ptr.world()))).sum()
sum_children(ptr, hs) ==
  IF hs = <<>> THEN 0
  ELSE sum_tree(EntityPtr_new(EntityHandle_entity(Head(hs)), EntityPtr_world(ptr)))
       + sum_children(ptr, Tail(hs))

\* a sum that leaves out the whole subtree of a node without Value
sum_tree_valued(ptr) ==
  LET v == EntityPtr_get(ptr, "Value")
      c == EntityPtr_get(ptr, "TreeChildren")
  IN IF IsSome(v)
     THEN Unwrap(v) + (IF IsSome(c) THEN sum_children(ptr, Unwrap(c)) ELSE 0)
     ELSE 0

sum_tree(ptr) ==
  LET v == EntityPtr_get(ptr, "Value")
      mine == IF IsSome(v) THEN Unwrap(v) ELSE 0
      c == EntityPtr_get(ptr, "TreeChildren")
      children_sum == IF IsSome(c) THEN sum_children(ptr, Unwrap(c)) ELSE 0
  IN mine + children_sum

\* c.0.iter().map(|h| sum_tree(node.follow_handle(*h))).sum()
sum_children_follow_handle(node, hs) ==
  IF hs = <<>> THEN 0
  ELSE sum_tree_follow_handle(EntityPtr_follow_handle(node, Head(hs)))
       + sum_children_follow_handle(node, Tail(hs))

sum_tree_follow_handle(node) ==
  LET v == EntityPtr_get(node, "Value")
      my_value == IF IsSome(v) THEN Unwrap(v) ELSE 0
      c == EntityPtr_get(node, "TreeChildren")
      children_sum == IF IsSome(c) THEN sum_children_follow_handle(node, Unwrap(c)) ELSE 0
  IN my_value + children_sum

\* c.0.iter().map(|h| tree_depth(..)).max(): None for no children
max_child_depth(ptr, hs) ==
  IF hs = <<>> THEN None
  ELSE LET d == tree_depth(EntityPtr_new(EntityHandle_entity(Head(hs)), EntityPtr_world(ptr)))
           r == max_child_depth(ptr, Tail(hs))
       IN IF IsSome(r) /\ Unwrap(r) >= d THEN r ELSE Some(d)

tree_depth(ptr) ==
  LET c == EntityPtr_get(ptr, "TreeChildren")
  IN IF IsSome(c)
     THEN LET m == max_child_depth(ptr, Unwrap(c))
          IN (IF IsSome(m) THEN Unwrap(m) ELSE 0) + 1
     ELSE 0

\* The store is empty, or build_tree has run on it.
InitTree ==
  /\ \E d \in 0..(ScenarioDepth + 1), scheme \in ValueSchemes :
       LET st == IF d = 0 THEN EmptyStore
                 ELSE build_tree(EmptyStore, d - 1, scheme).st
       IN /\ alive = [w \in Worlds |-> IF w = TreeWorld THEN st.alive ELSE {}]
          /\ nextId = [w \in Worlds |-> IF w = TreeWorld THEN st.nextId ELSE 1]
          /\ comp = [w \in Worlds |-> IF w = TreeWorld THEN st.comp ELSE EmptyStore.comp]
  /\ nmut = 0
  /\ cur = NoRef
  /\ obs = NoCall
  /\ thread = "main"

\* The entities no TreeChildren list names yet.
Orphans ==
  {e \in alive[TreeWorld] :
     \A q \in alive[TreeWorld] :
       LET c == comp[TreeWorld][q].TreeChildren
       IN IsSome(c) => \A i \in 1..Len(Unwrap(c)) : Unwrap(c)[i] # EntityHandle_new(e)}

RECURSIVE InIdOrder(_)
\* The handles of a set of entities, as a Vec in id order.
InIdOrder(S) ==
  IF S = {} THEN <<>>
  ELSE LET m == CHOOSE x \in S : \A y \in S : x <= y
       IN <<EntityHandle_new(m)>> \o InIdOrder(S \ {m})

\* What a new node is given as TreeChildren: nothing, or a Vec of handles.
TreeChildLists == {None} \cup {Some(InIdOrder(S)) : S \in SUBSET Orphans}

\* world.spawn(..) of a node: with or without Value, without TreeChildren or
\* with the handles of nodes that have no parent yet.
TreeSpawn(withValue, kids) ==
  /\ obs.op = "none" /\ ~PinnedByPtr(TreeWorld)
  /\ nextId[TreeWorld] <= MaxTree
  /\ LET e == nextId[TreeWorld]
     IN /\ alive' = [alive EXCEPT ![TreeWorld] = @ \cup {e}]
        /\ comp' = [comp EXCEPT ![TreeWorld][e] =
                      [Value |-> IF withValue THEN Some(e) ELSE None,
                       TreeChildren |-> kids]]
        /\ nextId' = [nextId EXCEPT ![TreeWorld] = e + 1]
  /\ nmut' = nmut + 1
  /\ cur' = KeptAcrossMutation(cur)
  /\ UNCHANGED <<obs, thread>>

\* let w = unsafe { WorldRef::new(&world) }; w.entity(root)
TreeEntity(e) ==
  /\ cur = NoRef
  /\ e \in alive[TreeWorld]
  /\ cur' = PtrReg(WorldRef_entity(WorldRef_new(TreeWorld), e), "unsafe")
  /\ obs' = NoCall
  /\ Reads

SumTree ==
  /\ cur.kind = "ptr"
  /\ obs' = Call("sum_tree", cur.world, "Value", "-", <<sum_tree(CurPtr)>>)
  /\ UNCHANGED cur /\ Reads

SumTreeFollowHandle ==
  /\ cur.kind = "ptr"
  /\ obs' = Call("sum_tree", cur.world, "Value", "follow_handle",
                 <<sum_tree_follow_handle(CurPtr)>>)
  /\ UNCHANGED cur /\ Reads

TreeDepth ==
  /\ cur.kind = "ptr"
  /\ obs' = Call("tree_depth", cur.world, "TreeChildren", "-", <<tree_depth(CurPtr)>>)
  /\ UNCHANGED cur /\ Reads

NextTree ==
  \/ \E withValue \in BOOLEAN, kids \in TreeChildLists : TreeSpawn(withValue, kids)
  \/ \E e \in TreeEnt : TreeEntity(e)
  \/ SumTree
  \/ SumTreeFollowHandle
  \/ TreeDepth
  \/ Drop
  \/ DropResult

SpecTree == InitTree /\ [][NextTree]_vars

\* ------------------------------------------- recursion over shared children
\* The same nodes with TreeChildren lists that may name a node more than once:
\* EntityHandle is plain data, so a Vec may hold the handle of any entity
\* spawned before, of one that another Vec holds, or the same handle twice,
\* and an entity a Vec names may be despawned afterwards.
MaxDag == 3
DagEnt == 1..MaxDag
DagSpawned == 1..(nextId[TreeWorld] - 1)
DagHandles == {EntityHandle_new(e) : e \in DagEnt}
\* vec![], vec![h] and vec![h1, h2]
DagChildLists ==
  {None, Some(<<>>)} \cup {Some(<<h>>) : h \in DagHandles}
    \cup {Some(<<h1, h2>>) : h1 \in DagHandles, h2 \in DagHandles}

InitDag ==
  /\ alive = [w \in Worlds |-> {}]
  /\ nextId = [w \in Worlds |-> 1]
  /\ comp = [w \in Worlds |-> EmptyStore.comp]
  /\ nmut = 0
  /\ cur = NoRef
  /\ obs = NoCall
  /\ thread = "main"

\* world.spawn(..) of a node: with or without Value, without TreeChildren or
\* with handles of entities spawned before.
DagSpawn(withValue, kids) ==
  /\ obs.op = "none" /\ ~PinnedByPtr(TreeWorld)
  /\ nextId[TreeWorld] <= MaxDag
  /\ IsSome(kids) =>
       \A i \in 1..Len(Unwrap(kids)) : EntityHandle_entity(Unwrap(kids)[i]) \in DagSpawned
  /\ LET e == nextId[TreeWorld]
     IN /\ alive' = [alive EXCEPT ![TreeWorld] = @ \cup {e}]
        /\ comp' = [comp EXCEPT ![TreeWorld][e] =
                      [Value |-> IF withValue THEN Some(e) ELSE None,
                       TreeChildren |-> kids]]
        /\ nextId' = [nextId EXCEPT ![TreeWorld] = e + 1]
  /\ nmut' = nmut + 1
  /\ cur' = KeptAcrossMutation(cur)
  /\ UNCHANGED <<obs, thread>>

\* world.despawn(e)
DagDespawn(e) ==
  /\ obs.op = "none" /\ ~PinnedByPtr(TreeWorld)
  /\ e \in alive[TreeWorld]
  /\ alive' = [alive EXCEPT ![TreeWorld] = @ \ {e}]
  /\ comp' = [comp EXCEPT ![TreeWorld][e] = TreeNoComponents]
  /\ nmut' = nmut + 1
  /\ cur' = KeptAcrossMutation(cur)
  /\ UNCHANGED <<nextId, obs, thread>>

NextDag ==
  \/ \E withValue \in BOOLEAN, kids \in DagChildLists : DagSpawn(withValue, kids)
  \/ \E e \in DagEnt : DagDespawn(e)
  \/ \E e \in DagEnt : TreeEntity(e)
  \/ SumTree
  \/ SumTreeFollowHandle
  \/ Drop
  \/ DropResult

SpecDag == InitDag /\ [][NextDag]_vars

\* ------------------------------------------------- reads of a store at rest
\* The stores the read-only code runs over: built by spawn, insert and despawn
\* before the reads start, and not mutated while they run (the systems of
\* examples/concurrent_systems.rs take &World).
FrozenBundles ==
  {NoComponents,
   [Name |-> Some("a"), Parent |-> Some(EntityHandle_new(1)),
    Target |-> Some(Some(EntityHandle_new(2))),
    Children |-> Some(<<EntityHandle_new(2), EntityHandle_new(1)>>)],
   [Name |-> Some("b"), Parent |-> Some(EntityHandle_new(2)),
    Target |-> Some(None), Children |-> Some(<<>>)]}
\* An id handed out: despawned since, or alive with a bundle.
EntityStates ==
  {[alive |-> FALSE, comp |-> NoComponents]}
    \cup {[alive |-> TRUE, comp |-> b] : b \in FrozenBundles}
StoreOf(n, f) ==
  [alive |-> {e \in 1..n : f[e].alive},
   nextId |-> n + 1,
   comp |-> [e \in Ent |-> IF e <= n THEN f[e].comp ELSE NoComponents]]
FrozenStores ==
  UNION {{StoreOf(n, f) : f \in [1..n -> EntityStates]} : n \in 0..MaxEnt}
\* The other World: empty, or one entity.
OtherStores ==
  {StoreOf(0, <<>>),
   StoreOf(1, <<[alive |-> TRUE,
                 comp |-> [NoComponents EXCEPT !.Name = Some("b"),
                                               !.Parent = Some(EntityHandle_new(1))]]>>)}

InitFrozen ==
  /\ \E s1 \in FrozenStores, s2 \in OtherStores :
       /\ alive = [w \in Worlds |-> IF w = "w1" THEN s1.alive ELSE s2.alive]
       /\ nextId = [w \in Worlds |-> IF w = "w1" THEN s1.nextId ELSE s2.nextId]
       /\ comp = [w \in Worlds |-> IF w = "w1" THEN s1.comp ELSE s2.comp]
  /\ nmut = 0
  /\ cur = NoRef
  /\ obs = NoCall
  /\ thread = "main"

NextFrozen ==
  \/ HandleCalls
  \/ BoundCalls
  \/ PtrCalls
  \/ \E i \in 1..MaxEnt : Advance(i)
  \/ Drop
  \/ DropResult

SpecFrozen == InitFrozen /\ [][NextFrozen]_vars

\* ------------------------------------------------- systems running together
\* examples/concurrent_systems.rs: two read-only systems over one &World, each
\* with its own reference (world.entity_ptr(entity), or a BoundEntity), made
\* from an entity id that both may share.  Here cur[s] is what system s holds
\* and obs[s] the results its calls returned so far.
Systems == {"health", "armor"}
SystemWorld == "w1"
\* The calls a system makes, in the order it makes them; after a follow or a
\* follow_opt that gives Some it goes on from the reference it got.
SystemProgram(s) ==
  IF s = "health"
  THEN <<[op |-> "is_alive", type |-> "-", f |-> "-"],
         [op |-> "get", type |-> "Name", f |-> "-"],
         [op |-> "follow", type |-> "Parent", f |-> "field"],
         [op |-> "get", type |-> "Name", f |-> "-"],
         [op |-> "has", type |-> "Target", f |-> "-"]>>
  ELSE <<[op |-> "has", type |-> "Children", f |-> "-"],
         [op |-> "follow_opt", type |-> "Target", f |-> "field"],
         [op |-> "is_alive", type |-> "-", f |-> "-"],
         [op |-> "get", type |-> "Parent", f |-> "-"]>>
NotStarted == [kind |-> "none", start |-> 0, entity |-> 0, pc |-> 0]

\* One call of a system's program on the reference it holds.
SystemCall(kind, e, c) ==
  IF kind = "bound"
  THEN LET b == BoundEntity_new(e, SystemWorld)
       IN CASE c.op = "get" -> BoundEntity_get(b, c.type)
            [] c.op = "has" -> BoundEntity_has(b, c.type)
            [] c.op = "is_alive" -> BoundEntity_is_alive(b)
            [] c.op = "follow" -> BoundEntity_follow(b, c.type, c.f)
            [] c.op = "follow_opt" -> BoundEntity_follow_opt(b, c.type, c.f)
  ELSE LET q == EntityPtr_new(e, SystemWorld)
       IN CASE c.op = "get" -> EntityPtr_get(q, c.type)
            [] c.op = "has" -> EntityPtr_has(q, c.type)
            [] c.op = "is_alive" -> EntityPtr_is_alive(q)
            [] c.op = "follow" -> EntityPtr_follow(q, c.type, c.f)
            [] c.op = "follow_opt" -> EntityPtr_follow_opt(q, c.type, c.f)
\* The entity the system goes on from after the call.
SystemMove(e, c, res) ==
  IF c.op \in {"follow", "follow_opt"} /\ IsSome(res) THEN Unwrap(res).entity ELSE e

InitSystems ==
  /\ \E s1 \in FrozenStores :
       /\ alive = [w \in Worlds |-> IF w = SystemWorld THEN s1.alive ELSE {}]
       /\ nextId = [w \in Worlds |-> IF w = SystemWorld THEN s1.nextId ELSE 1]
       /\ comp = [w \in Worlds |-> IF w = SystemWorld THEN s1.comp
                                   ELSE [e \in Ent |-> NoComponents]]
  /\ nmut = 0
  /\ cur = [s \in Systems |-> NotStarted]
  /\ obs = [s \in Systems |-> <<>>]
  /\ thread = "main"

\* let root_ptr = world.entity_ptr(entity);
SystemStart(s, kind, e) ==
  /\ cur[s].kind = "none"
  /\ cur' = [cur EXCEPT ![s] = [kind |-> kind, start |-> e, entity |-> e, pc |-> 1]]
  /\ UNCHANGED obs
  /\ Reads

\* a step with one pointer for all systems: the follow of one moves the others
SystemStepShared(s) ==
  /\ cur[s].kind # "none"
  /\ cur[s].pc <= Len(SystemProgram(s))
  /\ LET c == SystemProgram(s)[cur[s].pc]
         res == SystemCall(cur[s].kind, cur[s].entity, c)
     IN /\ obs' = [obs EXCEPT ![s] = Append(@, res)]
        /\ cur' = [t \in Systems |->
                     IF t = s
                     THEN [cur[t] EXCEPT !.entity = SystemMove(cur[s].entity, c, res),
                                         !.pc = @ + 1]
                     ELSE IF cur[t].kind = "none" THEN cur[t]
                     ELSE [cur[t] EXCEPT !.entity = SystemMove(cur[s].entity, c, res)]]
  /\ Reads

\* The next call of system s.
SystemStep(s) ==
  /\ cur[s].kind # "none"
  /\ cur[s].pc <= Len(SystemProgram(s))
  /\ LET c == SystemProgram(s)[cur[s].pc]
         res == SystemCall(cur[s].kind, cur[s].entity, c)
     IN /\ obs' = [obs EXCEPT ![s] = Append(@, res)]
        /\ cur' = [cur EXCEPT ![s] = [@ EXCEPT !.entity = SystemMove(@, c, res),
                                               !.pc = @ + 1]]
  /\ Reads

NextSystems ==
  \/ \E s \in Systems, kind \in {"bound", "ptr"}, e \in Ent : SystemStart(s, kind, e)
  \/ \E s \in Systems : SystemStep(s)

SpecSystems == InitSystems /\ [][NextSystems]_vars

\* ------------------------------------------------- find_root over Parent
\* lib.rs find_root_test and examples/tree_traversal.rs: nodes carry Name and,
\* but for a root, Parent(EntityHandle); a Parent is given at the spawn or
\* inserted afterwards (world.entity_mut(d).insert(Parent(..))), which can
\* close a cycle; nodes can be despawned.
MaxRoot == 3
RootWorld == "w1"
RootEnt == 1..MaxRoot
RootNoComponents == [Name |-> None, Parent |-> None]
RootNameOf(e) == IF e <= 4 THEN <<"root", "a", "b", "c">>[e] ELSE "more"
Spawned == 1..(nextId[RootWorld] - 1)

InitRoot ==
  /\ alive = [w \in Worlds |-> {}]
  /\ nextId = [w \in Worlds |-> 1]
  /\ comp = [w \in Worlds |-> [e \in RootEnt |-> RootNoComponents]]
  /\ nmut = 0
  /\ cur = NoRef
  /\ obs = NoCall
  /\ thread = "main"

RootCanMutate == obs.op = "none" /\ ~PinnedByPtr(RootWorld)

\* world.spawn(Name(..)) or world.spawn((Name(..), Parent(EntityHandle::new(p))))
RootSpawn(parent) ==
  /\ RootCanMutate
  /\ IsSome(parent) => EntityHandle_entity(Unwrap(parent)) \in Spawned
  /\ nextId[RootWorld] <= MaxRoot
  /\ LET e == nextId[RootWorld]
     IN /\ alive' = [alive EXCEPT ![RootWorld] = @ \cup {e}]
        /\ comp' = [comp EXCEPT ![RootWorld][e] =
                      [Name |-> Some(RootNameOf(e)), Parent |-> parent]]
        /\ nextId' = [nextId EXCEPT ![RootWorld] = e + 1]
  /\ nmut' = nmut + 1
  /\ cur' = KeptAcrossMutation(cur)
  /\ UNCHANGED <<obs, thread>>

\* world.entity_mut(e).insert(Parent(EntityHandle::new(p))) on a node that has
\* no Parent yet
RootInsertParent(e, p) ==
  /\ RootCanMutate
  /\ e \in alive[RootWorld]
  /\ p \in Spawned
  /\ comp[RootWorld][e].Parent = None
  /\ comp' = [comp EXCEPT ![RootWorld][e].Parent = Some(EntityHandle_new(p))]
  /\ nmut' = nmut + 1
  /\ cur' = KeptAcrossMutation(cur)
  /\ UNCHANGED <<alive, nextId, obs, thread>>

\* world.despawn(e)
RootDespawn(e) ==
  /\ RootCanMutate
  /\ e \in alive[RootWorld]
  /\ alive' = [alive EXCEPT ![RootWorld] = @ \ {e}]
  /\ comp' = [comp EXCEPT ![RootWorld][e] = RootNoComponents]
  /\ nmut' = nmut + 1
  /\ cur' = KeptAcrossMutation(cur)
  /\ UNCHANGED <<nextId, obs, thread>>

\* let w = unsafe { WorldRef::new(&world) }; w.entity(e)
RootEntity(e) ==
  /\ cur = NoRef
  /\ e \in Spawned
  /\ cur' = PtrReg(WorldRef_entity(WorldRef_new(RootWorld), e), "unsafe")
  /\ obs' = NoCall
  /\ Reads

\* find_root has been called and has not returned.
InFindRoot == obs.op = "find_root" /\ IsNone(obs.res)

\* find_root(ptr): the call; cur is the ptr of the innermost call from here on.
FindRootCall ==
  /\ cur.kind = "ptr"
  /\ obs.op = "none"
  /\ obs' = Call("find_root", cur.world, "Parent", "field", None)
  /\ UNCHANGED cur /\ Reads

\* find_root that returns the node it is at when the parent is the one it
\* started from
FindRootStepOnce ==
  /\ InFindRoot
  /\ LET parent_ptr == EntityPtr_follow(CurPtr, "Parent", "field")
     IN IF IsSome(parent_ptr) /\ Unwrap(parent_ptr).entity # obs.subj.entity
        THEN /\ cur' = PtrReg(Unwrap(parent_ptr), cur.via)
             /\ UNCHANGED obs
        ELSE /\ obs' = [obs EXCEPT !.res = Some(CurPtr)]
             /\ UNCHANGED cur
  /\ Reads

\* match ptr.follow::<Parent, _>(|p| p.0) {
\*   Some(parent_ptr) => find_root(parent_ptr), None => ptr }
FindRootStep ==
  /\ InFindRoot
  /\ LET parent_ptr == EntityPtr_follow(CurPtr, "Parent", "field")
     IN IF IsSome(parent_ptr)
        THEN /\ cur' = PtrReg(Unwrap(parent_ptr), cur.via)
             /\ UNCHANGED obs
        ELSE /\ obs' = [obs EXCEPT !.res = Some(CurPtr)]
             /\ UNCHANGED cur
  /\ Reads

\* The caller is done with the pointers.
RootDrop ==
  /\ cur.kind # "none"
  /\ ~InFindRoot
  /\ cur' = NoRef
  /\ obs' = NoCall
  /\ Reads

NextRoot ==
  \/ \E parent \in {None} \cup {Some(EntityHandle_new(p)) : p \in RootEnt} : RootSpawn(parent)
  \/ \E e \in RootEnt, p \in RootEnt : RootInsertParent(e, p)
  \/ \E e \in RootEnt : RootDespawn(e)
  \/ \E e \in RootEnt : RootEntity(e)
  \/ FindRootCall
  \/ FindRootStep
  \/ RootDrop

SpecRoot == InitRoot /\ [][NextRoot]_vars
\* A call that has been made goes on: the thread running find_root keeps running.
SpecRootFair == SpecRoot /\ WF_vars(FindRootStep)

\* ------------------------------------------------------------ properties
Despawned(w, e) == e \in 1..(nextId[w] - 1) /\ e \notin alive[w]
\* The entity a recorded call read: the subject's, or the argument of WorldRef::get.
ObsEntity == IF obs.op = "wget" THEN obs.arg ELSE obs.subj.entity

\* C1: for every store, entity id and component type the four read paths
\* EntityHandle::get(store), BoundEntity::get, WorldRef::entity(e).get and
\* WorldRef::get(e) return the same thing, and has and is_alive agree across
\* EntityHandle, BoundEntity and EntityPtr; a recorded get returned what the
\* other paths return.
C1_ReadPathsAgree ==
  /\ \A w \in Worlds, e \in Ent, T \in Types :
       LET h == EntityHandle_new(e)
           b == BoundEntity_new(e, w)
           r == WorldRef_new(w)
           p == WorldRef_entity(r, e)
       IN /\ BoundEntity_get(b, T) = EntityHandle_get(h, w, T)
          /\ EntityPtr_get(p, T) = EntityHandle_get(h, w, T)
          /\ WorldRef_get(r, e, T) = EntityHandle_get(h, w, T)
          /\ BoundEntity_has(b, T) = EntityHandle_has(h, w, T)
          /\ EntityPtr_has(p, T) = EntityHandle_has(h, w, T)
          /\ BoundEntity_is_alive(b) = EntityHandle_is_alive(h, w)
          /\ EntityPtr_is_alive(p) = EntityHandle_is_alive(h, w)
  /\ obs.op \in {"get", "wget"} =>
       /\ obs.res = EntityHandle_get(EntityHandle_new(ObsEntity), obs.world, obs.type)
       /\ obs.res = BoundEntity_get(BoundEntity_new(ObsEntity, obs.world), obs.type)
       /\ obs.res = EntityPtr_get(EntityPtr_new(ObsEntity, obs.world), obs.type)
       /\ obs.res = WorldRef_get(WorldRef_new(obs.world), ObsEntity, obs.type)

\* An EntityPtr read a component that is there, on a store where another id
\* is not alive.
C1_Witness ==
  /\ obs.op = "get" /\ obs.subj.kind = "ptr" /\ IsSome(obs.res)
  /\ \E e \in Ent : e \notin alive[obs.world]

\* C2: once an entity is despawned, is_alive is false, has is false and get is
\* None for it through an EntityHandle, a BoundEntity, an EntityPtr and
\* WorldRef::get, and every call recorded on it returned exactly that.
C2_DespawnedReadsAbsent ==
  /\ \A w \in Worlds, e \in Ent, T \in Types :
       Despawned(w, e) =>
         LET h == EntityHandle_new(e)
             b == EntityHandle_bind(h, w)
             p == WorldRef_entity(WorldRef_new(w), e)
         IN /\ ~EntityHandle_is_alive(h, w) /\ ~BoundEntity_is_alive(b)
            /\ ~EntityPtr_is_alive(p)
            /\ ~EntityHandle_has(h, w, T) /\ ~BoundEntity_has(b, T)
            /\ ~EntityPtr_has(p, T)
            /\ IsNone(EntityHandle_get(h, w, T)) /\ IsNone(BoundEntity_get(b, T))
            /\ IsNone(EntityPtr_get(p, T))
            /\ IsNone(WorldRef_get(WorldRef_new(w), e, T))
  /\ (obs.op \in {"get", "wget"} /\ Despawned(obs.world, ObsEntity)) => IsNone(obs.res)
  /\ (obs.op \in {"has", "is_alive"} /\ Despawned(obs.world, ObsEntity)) => obs.res = FALSE

\* A handle made while the entity lived, kept across the despawn, was asked
\* is_alive.
C2_Witness ==
  /\ cur.kind = "handle" /\ cur.kept /\ nmut = 2
  /\ obs.op = "is_alive" /\ obs.subj = cur
  /\ Despawned(obs.world, cur.entity)

C5_PtrOnlyFromExplicitUnsafe == cur.kind = "ptr" => cur.via = "unsafe"

\* C6: a BoundEntity, a WorldRef or an EntityPtr is only ever on the thread
\* that made it.
C6_RefsStayOnCreatingThread ==
  cur.kind \in {"bound", "wref", "ptr"} => thread = cur.home

\* C7: a step that records a call, or that changes the reference the caller
\* holds (a constructor, a conversion, a navigation, a drop), leaves every
\* store as it was.
C7_CallsLeaveStoreUnchanged ==
  [][(\/ obs'.op # obs.op \/ obs'.subj # obs.subj \/ obs'.world # obs.world
      \/ obs'.type # obs.type \/ obs'.f # obs.f \/ obs'.arg # obs.arg
      \/ obs'.res # obs.res
      \/ [cur' EXCEPT !.kept = FALSE] # [cur EXCEPT !.kept = FALSE])
       => UNCHANGED storeVars]_vars

\* Children were read through an EntityPtr navigator on a store that holds
\* them.
C7_Witness ==
  /\ obs.op = "children" /\ obs.subj.kind = "ptr" /\ Len(obs.res) = 2
  /\ IsSome(comp[obs.world][obs.subj.entity]["Children"])

\* The reference type a navigation on x returns: the type of x.
SameKind(x) == IF x.kind = "bound" THEN "BoundEntity" ELSE "EntityPtr"

\* C8: follow::<T>(f) is None exactly when get::<T>() on the same reference
\* is None; otherwise it is a reference of the same type, on the entity of the
\* handle f gives for the component, bound to the same store.
C8_Follow ==
  /\ \A w \in Worlds, e \in Ent, a \in FollowArgs :
       LET b == BoundEntity_new(e, w)
           p == EntityPtr_new(e, w)
           rb == BoundEntity_follow(b, a[1], a[2])
           rp == EntityPtr_follow(p, a[1], a[2])
       IN /\ IsNone(rb) <=> IsNone(BoundEntity_get(b, a[1]))
          /\ IsNone(rp) <=> IsNone(EntityPtr_get(p, a[1]))
          /\ IsSome(rb) =>
               /\ Unwrap(rb).ty = "BoundEntity"
               /\ BoundEntity_entity(Unwrap(rb)) =
                    EntityHandle_entity(Extract(a[2], Unwrap(BoundEntity_get(b, a[1]))))
               /\ BoundEntity_world(Unwrap(rb)) = w
          /\ IsSome(rp) =>
               /\ Unwrap(rp).ty = "EntityPtr"
               /\ EntityPtr_entity(Unwrap(rp)) =
                    EntityHandle_entity(Extract(a[2], Unwrap(EntityPtr_get(p, a[1]))))
               /\ EntityPtr_world(Unwrap(rp)) = w
  /\ obs.op = "follow" =>
       LET g == World_get(obs.world, obs.subj.entity, obs.type)
       IN /\ IsNone(obs.res) <=> IsNone(g)
          /\ IsSome(obs.res) =>
               /\ Unwrap(obs.res).ty = SameKind(obs.subj)
               /\ Unwrap(obs.res).entity = EntityHandle_entity(Extract(obs.f, Unwrap(g)))
               /\ Unwrap(obs.res).world = obs.subj.world

\* A BoundEntity followed a component to another entity.
C8_Witness ==
  /\ obs.op = "follow" /\ obs.subj.kind = "bound" /\ IsSome(obs.res)
  /\ Unwrap(obs.res).entity # obs.subj.entity

\* C9: follow_opt::<T>(f) is None in two cases, T absent (or the entity dead)
\* and f giving None, and in no other; otherwise it is Some reference of the
\* same type, on the entity of the handle f gave, bound to the same store.
C9_FollowOpt ==
  /\ \A w \in Worlds, e \in Ent, a \in FollowOptArgs :
       LET b == BoundEntity_new(e, w)
           p == EntityPtr_new(e, w)
           g == World_get(w, e, a[1])
           rb == BoundEntity_follow_opt(b, a[1], a[2])
           rp == EntityPtr_follow_opt(p, a[1], a[2])
           none == IsNone(g) \/ IsNone(OptExtract(a[2], Unwrap(g)))
       IN /\ IsNone(rb) <=> none
          /\ IsNone(rp) <=> none
          /\ ~none =>
               /\ rb = Some(BoundEntity_new(
                         EntityHandle_entity(Unwrap(OptExtract(a[2], Unwrap(g)))), w))
               /\ rp = Some(EntityPtr_new(
                         EntityHandle_entity(Unwrap(OptExtract(a[2], Unwrap(g)))), w))
  /\ obs.op = "follow_opt" =>
       LET g == World_get(obs.world, obs.subj.entity, obs.type)
           none == IsNone(g) \/ IsNone(OptExtract(obs.f, Unwrap(g)))
       IN /\ IsNone(obs.res) <=> none
          /\ ~none =>
               /\ Unwrap(obs.res).ty = SameKind(obs.subj)
               /\ Unwrap(obs.res).entity =
                    EntityHandle_entity(Unwrap(OptExtract(obs.f, Unwrap(g))))
               /\ Unwrap(obs.res).world = obs.subj.world

\* An EntityPtr got None from follow_opt although the component is there:
\* the extractor gave None.
C9_Witness ==
  /\ obs.op = "follow_opt" /\ obs.subj.kind = "ptr" /\ IsNone(obs.res)
  /\ IsSome(World_get(obs.world, obs.subj.entity, obs.type))

\* follow or follow_opt, as the recorded call made it, evaluated again now.
FollowAgain ==
  IF obs.subj.kind = "bound"
  THEN IF obs.op = "follow"
       THEN BoundEntity_follow(BoundEntity_new(obs.subj.entity, obs.subj.world),
                               obs.type, obs.f)
       ELSE BoundEntity_follow_opt(BoundEntity_new(obs.subj.entity, obs.subj.world),
                                   obs.type, obs.f)
  ELSE IF obs.op = "follow"
       THEN EntityPtr_follow(EntityPtr_new(obs.subj.entity, obs.subj.world),
                             obs.type, obs.f)
       ELSE EntityPtr_follow_opt(EntityPtr_new(obs.subj.entity, obs.subj.world),
                                 obs.type, obs.f)

C11_RoundTrip ==
  /\ \A e \in Ent :
       /\ EntityHandle_entity(EntityHandle_new(e)) = e
       /\ Entity_from(EntityHandle_from(e)) = e
  /\ obs.op = "handle" =>
       LET rb == EntityHandle_bind(CurHandle, obs.subj.world)
           rp == WorldRef_from_handle(WorldRef_new(obs.subj.world), CurHandle)
       IN /\ EntityHandle_entity(CurHandle) = obs.subj.entity
          /\ BoundEntity_entity(rb) = obs.subj.entity
          /\ EntityPtr_entity(rp) = obs.subj.entity
          /\ \A T \in Types :
               /\ BoundEntity_get(rb, T) = World_get(obs.subj.world, obs.subj.entity, T)
               /\ EntityPtr_get(rp, T) = World_get(obs.subj.world, obs.subj.entity, T)

\* handle() was taken from an EntityPtr on an entity that holds a component.
C11_Witness ==
  /\ obs.op = "handle" /\ obs.subj.kind = "ptr" /\ cur.kind = "handle"
  /\ \E T \in Types : IsSome(World_get(obs.subj.world, obs.subj.entity, T))

\* C12 as stated: a reference of each of the three kinds can be compared and
\* hashed, and compares by entity id.
C12_AllKindsCompare ==
  /\ cur.kind \in {"handle", "bound", "ptr"} =>
       {"PartialEq", "Hash"} \subseteq Implements(TypeOfKind(cur.kind))
  /\ obs.op = "eq" => obs.res = (obs.subj.entity = obs.arg)

\* C12, amended: two EntityHandles, and two EntityPtrs, compare equal exactly
\* when their entity ids are equal, also when the EntityPtrs are of different
\* stores; an EntityHandle and an EntityPtr of the same id hash identically,
\* and the handles taken from a BoundEntity and an EntityPtr of the same id
\* are equal; BoundEntity itself has no equality and no hash.
C12_EqHashById ==
  /\ obs.op = "eq" => obs.res = (obs.subj.entity = obs.arg)
  /\ \A e \in Ent, w1 \in Worlds, w2 \in Worlds :
       /\ EntityHandle_hash(EntityHandle_new(e)) = EntityPtr_hash(EntityPtr_new(e, w1))
       /\ EntityPtr_hash(EntityPtr_new(e, w1)) = EntityPtr_hash(EntityPtr_new(e, w2))
       /\ EntityHandle_eq(BoundEntity_handle(BoundEntity_new(e, w1)),
                          EntityPtr_handle(EntityPtr_new(e, w2)))
       /\ EntityHandle_eq(EntityHandle_new(e), EntityPtr_handle(EntityPtr_new(e, w2)))
  /\ {"PartialEq", "Hash"} \cap Implements("BoundEntity") = {}

\* An EntityPtr was found equal to an EntityPtr of the other store.
C12_Witness ==
  /\ obs.op = "eq" /\ obs.subj.kind = "ptr" /\ obs.res = TRUE
  /\ obs.world # obs.subj.world

\* C13: WorldRef::entity(id) gives an EntityPtr on id in the store of the
\* WorldRef for every id, alive or not; WorldRef::entity_opt(id) is Some
\* pointer on id exactly when id is alive in the store at the call, so
\* entity_opt(id).is_some() = entity(id).is_alive().
C13_EntityAndEntityOpt ==
  /\ obs.op = "entity" =>
       /\ cur.kind = "ptr" /\ cur.entity = obs.arg /\ cur.world = obs.subj.world
  /\ obs.op = "entity_opt" =>
       /\ IsSome(obs.res) <=> World_get_entity_is_ok(obs.world, obs.arg)
       /\ IsSome(obs.res) =
            EntityPtr_is_alive(WorldRef_entity(WorldRef_new(obs.world), obs.arg))
       /\ IsSome(obs.res) => Unwrap(obs.res) = EntityPtr_new(obs.arg, obs.subj.world)

\* entity_opt was asked for a despawned id.
C13_Witness ==
  /\ obs.op = "entity_opt" /\ IsNone(obs.res) /\ Despawned(obs.world, obs.arg)

\* C14: WorldRef::from_handle(h) and EntityPtr::follow_handle(h) give an
\* EntityPtr on h.entity() for any handle, alive or stale; what follow_handle
\* gives reads the store of the pointer it was called on, and is the same
\* whatever entity that pointer is on.
C14_FromHandleFollowHandle ==
  obs.op \in {"from_handle", "follow_handle"} =>
    /\ cur.kind = "ptr" /\ cur.entity = obs.arg /\ cur.world = obs.subj.world
    /\ \A T \in Types : EntityPtr_get(CurPtr, T) = World_get(obs.subj.world, obs.arg, T)
    /\ \A e \in Ent :
         EntityPtr_follow_handle(EntityPtr_new(e, obs.subj.world), EntityHandle_new(obs.arg))
           = CurPtr

\* follow_handle went from a live entity to a stale handle of another entity.
C14_Witness ==
  /\ obs.op = "follow_handle" /\ obs.arg # obs.subj.entity
  /\ obs.subj.entity \in alive[obs.subj.world]
  /\ obs.arg \notin alive[obs.subj.world]

\* children::<T>(), as the recorded call made it, evaluated again now.
ChildrenAgain ==
  IF obs.subj.kind = "bound"
  THEN BoundEntityNav_children(
         BoundEntity_nav(BoundEntity_new(obs.subj.entity, obs.subj.world)), obs.type)
  ELSE EntityPtrNavMany_children(
         EntityPtr_nav_many(EntityPtr_new(obs.subj.entity, obs.subj.world)), obs.type)

\* C15: children::<T>() on a BoundEntityNav or an EntityPtrNavMany is the
\* empty sequence whenever the entity lacks T, the entity is dead, or T holds
\* an empty list.
C15_ChildrenEmpty ==
  obs.op = "children" =>
    LET g == World_get(obs.world, obs.subj.entity, obs.type)
    IN (\/ ~World_get_entity_is_ok(obs.world, obs.subj.entity)
        \/ IsNone(g)
        \/ children_handles(obs.type, Unwrap(g)) = <<>>)
         => (obs.res = <<>> /\ Len(obs.res) = 0)

\* children was asked of a BoundEntity whose Children component holds an
\* empty list.
C15_Witness ==
  /\ obs.op = "children" /\ obs.subj.kind = "bound"
  /\ World_get(obs.world, obs.subj.entity, obs.type) = Some(<<>>)

\* C16: when T is there, children::<T>() is one reference for each element of
\* T.children_handles(), in that order and on those entities (duplicates and
\* stale handles too), each of the type of the parent reference and bound to
\* its store; asked again on the unchanged store it is the same sequence.
C16_ChildrenInOrder ==
  (obs.op = "children" /\ IsSome(World_get(obs.world, obs.subj.entity, obs.type))) =>
    LET hs == children_handles(obs.type,
                               Unwrap(World_get(obs.world, obs.subj.entity, obs.type)))
    IN /\ Len(obs.res) = Len(hs)
       /\ \A i \in 1..Len(hs) :
            /\ obs.res[i].entity = EntityHandle_entity(hs[i])
            /\ obs.res[i].ty = SameKind(obs.subj)
            /\ obs.res[i].world = obs.subj.world
       /\ ChildrenAgain = obs.res

\* An EntityPtr listed two children, the first of them a stale handle.
C16_Witness ==
  /\ obs.op = "children" /\ obs.subj.kind = "ptr" /\ Len(obs.res) = 2
  /\ obs.res[1].entity \notin alive[obs.world]
  /\ obs.res[2].entity \in alive[obs.world]

\* The extractor |c| c.parent_handle() for a component type T.
ParentExtractor(T) == IF T = "Target" THEN "field" ELSE "some"

\* C17: parent::<T>() on a BoundEntityNav or an EntityPtrNav is None exactly
\* when T is absent (or the entity dead) or T.parent_handle() is None, else
\* Some reference on the entity of T.parent_handle(); it is what
\* follow_opt::<T>(|c| c.parent_handle()) gives on the underlying reference.
C17_ParentIsFollowOpt ==
  obs.op = "parent" =>
    LET g == World_get(obs.world, obs.subj.entity, obs.type)
        none == IsNone(g) \/ IsNone(parent_handle(obs.type, Unwrap(g)))
    IN /\ IsNone(obs.res) <=> none
       /\ ~none =>
            /\ Unwrap(obs.res).entity =
                 EntityHandle_entity(Unwrap(parent_handle(obs.type, Unwrap(g))))
            /\ Unwrap(obs.res).ty = SameKind(obs.subj)
            /\ Unwrap(obs.res).world = obs.subj.world
       /\ IsSome(g) =>
            OptExtract(ParentExtractor(obs.type), Unwrap(g)) = parent_handle(obs.type, Unwrap(g))
       /\ obs.res =
            IF obs.subj.kind = "bound"
            THEN BoundEntity_follow_opt(BoundEntity_new(obs.subj.entity, obs.subj.world),
                                        obs.type, ParentExtractor(obs.type))
            ELSE EntityPtr_follow_opt(EntityPtr_new(obs.subj.entity, obs.subj.world),
                                      obs.type, ParentExtractor(obs.type))

\* An EntityPtr has the component and no parent in it.
C17_Witness ==
  /\ obs.op = "parent" /\ obs.subj.kind = "ptr" /\ IsNone(obs.res)
  /\ IsSome(World_get(obs.world, obs.subj.entity, obs.type))

\* C18: get::<T>() is None in exactly two cases, the entity does not exist in
\* the store or it exists without T, and None is all it says in both;
\* (get::<T>() is None and is_alive() is true) holds exactly when the entity
\* exists and lacks T.
C18_GetNoneTwoCases ==
  obs.op = "get" =>
    LET e == obs.subj.entity
        w == obs.world
        exists == e \in alive[w]
        lacks == exists /\ comp[w][e][obs.type] = None
        is_alive ==
          CASE obs.subj.kind = "handle" -> EntityHandle_is_alive(EntityHandle_new(e), w)
            [] obs.subj.kind = "bound" -> BoundEntity_is_alive(BoundEntity_new(e, w))
            [] obs.subj.kind = "ptr" -> EntityPtr_is_alive(EntityPtr_new(e, w))
    IN /\ IsNone(obs.res) <=> (~exists \/ lacks)
       /\ (IsNone(obs.res) /\ is_alive) <=> lacks
       /\ (IsNone(obs.res) /\ ~is_alive) <=> ~exists

\* A BoundEntity's get gave None on an entity that exists.
C18_Witness ==
  /\ obs.op = "get" /\ obs.subj.kind = "bound" /\ IsNone(obs.res)
  /\ obs.subj.entity \in alive[obs.world]
  /\ BoundEntity_is_alive(BoundEntity_new(obs.subj.entity, obs.world))

\* The reference k follows of next away from a BoundEntity, if every follow
\* on the way gives one.
RECURSIVE FollowNextBound(_, _)
FollowNextBound(b, k) ==
  IF k = 0 THEN Some(b)
  ELSE LET r == BoundEntity_follow_opt(b, NextOf[1], NextOf[2])
       IN IF IsSome(r) THEN FollowNextBound(Unwrap(r), k - 1) ELSE None
RECURSIVE FollowNextPtr(_, _)
FollowNextPtr(p, k) ==
  IF k = 0 THEN Some(p)
  ELSE LET r == EntityPtr_follow_opt(p, NextOf[1], NextOf[2])
       IN IF IsSome(r) THEN FollowNextPtr(Unwrap(r), k - 1) ELSE None
\* The nodes a walk from s visits: s, then down the chain to the first node
\* that is the tail or does not exist.
ChainNodesFrom(s) ==
  LET stops == {x \in 1..s : x = 1 \/ x \notin alive[ChainWorld]}
      last == CHOOSE x \in stops : \A y \in stops : y <= x
  IN last..s

\* C19: in the chain a -> b -> c -> d linked by an optional next handle, the
\* walk that repeats follow_opt until None (count_chain_length) returns the
\* number of nodes from where it starts, 4 from a in the chain of 4, for
\* BoundEntity and for EntityPtr; after a node below a is despawned (c),
\* following next from a's re-derived reference down to it (twice) gives Some
\* reference whose is_alive is false and whose get::<Name>() is None.
C19_ChainScenario ==
  /\ obs.op = "count_chain_length" =>
       /\ obs.res[1] = Cardinality(ChainNodesFrom(obs.subj.entity))
       /\ (alive[ChainWorld] = 1..ChainLen /\ obs.subj.entity = ChainLen)
            => obs.res[1] = ChainLen
  /\ \A x \in ChainEnt :
       (/\ x < ChainHead
        /\ x \notin alive[ChainWorld]
        /\ (x + 1)..ChainHead \subseteq alive[ChainWorld]) =>
         LET b == FollowNextBound(EntityHandle_bind(a_handle, ChainWorld), ChainHead - x)
             p == FollowNextPtr(WorldRef_from_handle(WorldRef_new(ChainWorld), a_handle),
                                ChainHead - x)
         IN /\ IsSome(b) /\ Unwrap(b).entity = x
            /\ ~BoundEntity_is_alive(Unwrap(b))
            /\ IsNone(BoundEntity_get(Unwrap(b), "Name"))
            /\ IsSome(p) /\ Unwrap(p).entity = x
            /\ ~EntityPtr_is_alive(Unwrap(p))
            /\ IsNone(EntityPtr_get(Unwrap(p), "Name"))
  /\ (cur.kind \in {"bound", "ptr"} /\ cur.entity \notin alive[ChainWorld] /\ obs.subj = cur) =>
       /\ obs.op = "is_alive" => obs.res = FALSE
       /\ obs.op = "get" => IsNone(obs.res)

\* The chain of 4 was built and walked to its length after c was despawned, a's
\* BoundEntity re-derived and next followed twice: the caller holds a
\* BoundEntity on c and is_alive said false.
C19_Witness ==
  /\ nextId[ChainWorld] = 5 /\ alive[ChainWorld] = {1, 3, 4}
  /\ cur.kind = "bound" /\ cur.entity = 2 /\ ~cur.kept
  /\ obs.op = "is_alive" /\ obs.subj = cur /\ obs.res = FALSE

\* The entities a TreeChildren list of an entity of S names.
TreeChildrenOf(S) ==
  {q \in TreeEnt :
     \E e \in S \cap alive[TreeWorld] :
       LET c == comp[TreeWorld][e].TreeChildren
       IN IsSome(c) /\ \E i \in 1..Len(Unwrap(c)) : Unwrap(c)[i] = EntityHandle_new(q)}
RECURSIVE TreeNodesFrom(_)
\* The nodes of the tree under the entities of S, S included.
TreeNodesFrom(S) ==
  LET more == S \cup TreeChildrenOf(S)
  IN IF more = S THEN S ELSE TreeNodesFrom(more)
RECURSIVE SumOfValues(_)
\* The sum of Value over a set of nodes, a node without Value counting 0.
SumOfValues(S) ==
  IF S = {} THEN 0
  ELSE LET e == CHOOSE x \in S : TRUE
           v == World_get(TreeWorld, e, "Value")
       IN (IF IsSome(v) THEN Unwrap(v) ELSE 0) + SumOfValues(S \ {e})
\* The store holds the balanced binary tree of the scenario and nothing else.
ScenarioTree ==
  \E scheme \in ValueSchemes :
    LET st == build_tree(EmptyStore, ScenarioDepth, scheme).st
    IN /\ alive[TreeWorld] = st.alive /\ comp[TreeWorld] = st.comp
       /\ nextId[TreeWorld] = st.nextId
ScenarioRoot == nextId[TreeWorld] - 1

\* C20: on a finite tree whose children are listed in a children component,
\* sum_tree over EntityPtr is the sum of Value over all nodes of the tree, a
\* node without Value counting 0; on the complete binary tree of depth 3 that
\* is the sum of the 15 values, and tree_depth of its root is 3.
C20_TreeScenario ==
  /\ obs.op = "sum_tree" =>
       obs.res[1] = SumOfValues(TreeNodesFrom({obs.subj.entity}))
  /\ (ScenarioTree /\ obs.subj.entity = ScenarioRoot) =>
       /\ Cardinality(TreeNodesFrom({ScenarioRoot})) = (2 ^ (ScenarioDepth + 1)) - 1
       /\ TreeNodesFrom({ScenarioRoot}) = alive[TreeWorld]
       /\ \A e \in alive[TreeWorld] : IsSome(World_get(TreeWorld, e, "Value"))
       /\ obs.op = "sum_tree" => obs.res[1] = SumOfValues(alive[TreeWorld])
       /\ obs.op = "tree_depth" => obs.res[1] = ScenarioDepth

\* sum_tree ran on the root of the complete binary tree of depth 3 whose 15
\* nodes carry the values 1 to 15.
C20_Witness ==
  /\ ScenarioTree /\ obs.op = "sum_tree" /\ obs.subj.entity = ScenarioRoot
  /\ obs.f = "-" /\ obs.res[1] = 120

RECURSIVE RunAlone(_, _, _, _)
\* What the calls i.. of system s return when it runs them alone, one after
\* another, from entity e.
RunAlone(s, kind, e, i) ==
  IF i > Len(SystemProgram(s)) THEN <<>>
  ELSE LET c == SystemProgram(s)[i]
           res == SystemCall(kind, e, c)
       IN <<res>> \o RunAlone(s, kind, SystemMove(e, c, res), i + 1)

ParentOf(e) ==
  LET c == World_get(RootWorld, e, "Parent")
  IN IF IsSome(c) THEN Some(EntityHandle_entity(Unwrap(c))) ELSE None
RECURSIVE AncestorsFrom(_)
\* The nodes on the way up from the nodes of S, S included.
AncestorsFrom(S) ==
  LET more == S \cup {Unwrap(ParentOf(e)) : e \in {x \in S : IsSome(ParentOf(x))}}
  IN IF more = S THEN S ELSE AncestorsFrom(more)
\* The way up from e comes back to a node it has been at.
CycleFrom(e) == \A x \in AncestorsFrom({e}) : IsSome(ParentOf(x))

\* C22: a recursive traversal built on follow (find_root) returns on acyclic
\* relationship data, and on data with a cycle reachable from its start (an
\* entity whose Parent is itself) it never returns: nothing detects or limits
\* the revisits.
C22_TerminatesUnlessCycle ==
  /\ [](obs.op = "find_root" /\ CycleFrom(obs.subj.entity) => IsNone(obs.res))
  /\ (InFindRoot /\ ~CycleFrom(obs.subj.entity)) ~> (obs.op = "find_root" /\ IsSome(obs.res))

\* find_root is running on a node whose Parent is itself.
C22_Witness ==
  /\ InFindRoot /\ cur.entity = obs.subj.entity
  /\ ParentOf(cur.entity) = Some(cur.entity)

\* The handle the source component of a recorded follow, follow_opt or parent
\* yields, if the component is there and yields one.
SourceHandle(o) ==
  LET g == World_get(o.world, o.subj.entity, o.type)
  IN IF IsNone(g) THEN None
     ELSE CASE o.op = "follow" -> Some(Extract(o.f, Unwrap(g)))
            [] o.op = "follow_opt" -> OptExtract(o.f, Unwrap(g))
            [] o.op = "parent" -> parent_handle(o.type, Unwrap(g))
\* is_alive and get on a reference a navigation returned.
RefIsAlive(r) ==
  IF r.ty = "BoundEntity" THEN BoundEntity_is_alive(r) ELSE EntityPtr_is_alive(r)
RefGet(r, T) ==
  IF r.ty = "BoundEntity" THEN BoundEntity_get(r, T) ELSE EntityPtr_get(r, T)

\* C23: follow, follow_opt and parent return Some reference whenever the
\* source component yields a handle, and follow_handle and from_handle a
\* reference for any handle, also when the entity of the handle has been
\* despawned; the reference then says is_alive() false and get::<T>() None.
C23_NavigationIgnoresLiveness ==
  /\ obs.op \in {"follow", "follow_opt", "parent"} =>
       LET h == SourceHandle(obs)
       IN /\ IsSome(obs.res) <=> IsSome(h)
          /\ IsSome(h) =>
               LET r == Unwrap(obs.res)
               IN /\ r.entity = EntityHandle_entity(Unwrap(h))
                  /\ r.entity \notin alive[obs.world] =>
                       /\ ~RefIsAlive(r)
                       /\ \A T \in Types : IsNone(RefGet(r, T))
  /\ obs.op \in {"from_handle", "follow_handle"} =>
       /\ cur.kind = "ptr" /\ cur.entity = obs.arg
       /\ obs.arg \notin alive[cur.world] =>
            /\ ~EntityPtr_is_alive(CurPtr)
            /\ \A T \in Types : IsNone(EntityPtr_get(CurPtr, T))
  /\ (obs.op \in {"is_alive", "get"} /\ obs.subj.entity \notin alive[obs.world]) =>
       obs.res = IF obs.op = "is_alive" THEN FALSE ELSE None

\* follow_opt on a BoundEntity gave a reference to a despawned entity.
C23_Witness ==
  /\ obs.op = "follow_opt" /\ obs.subj.kind = "bound" /\ IsSome(obs.res)
  /\ Despawned(obs.world, Unwrap(obs.res).entity)
  /\ obs.subj.entity \in alive[obs.world]

\* C24: the store is invariant under navigation: a reference derived from a
\* BoundEntity or an EntityPtr by follow, follow_opt, follow_handle, parent or
\* children, over any number of steps, is on the store of the reference it
\* was derived from, and an EntityPtr minted by a WorldRef (entity,
\* entity_opt, from_handle) is on the store of that WorldRef.
C24_StoreInvariantUnderNavigation ==
  [][/\ (cur.kind \in {"bound", "ptr", "wref"} /\ cur'.kind \in {"bound", "ptr", "wref"})
          => cur'.world = cur.world
     /\ IsNav(obs') =>
          /\ obs'.world = obs'.subj.world
          /\ \A i \in 1..Len(obs'.res) : obs'.res[i].world = obs'.subj.world]_vars

\* follow_handle on an EntityPtr of the second store gave an EntityPtr of the
\* second store on another entity.
C24_Witness ==
  /\ obs.op = "follow_handle" /\ obs.subj.world = "w2"
  /\ cur.kind = "ptr" /\ cur.world = "w2" /\ cur.entity # obs.subj.entity

\* get and is_alive of the reference a recorded call was made on, by the
\* kind of the reference.
SubjGet(o, T) ==
  CASE o.subj.kind = "handle" -> EntityHandle_get(EntityHandle_new(o.subj.entity), o.world, T)
    [] o.subj.kind = "bound" -> BoundEntity_get(BoundEntity_new(o.subj.entity, o.world), T)
    [] o.subj.kind = "ptr" -> EntityPtr_get(EntityPtr_new(o.subj.entity, o.world), T)
SubjIsAlive(o) ==
  CASE o.subj.kind = "handle" -> EntityHandle_is_alive(EntityHandle_new(o.subj.entity), o.world)
    [] o.subj.kind = "bound" -> BoundEntity_is_alive(BoundEntity_new(o.subj.entity, o.world))
    [] o.subj.kind = "ptr" -> EntityPtr_is_alive(EntityPtr_new(o.subj.entity, o.world))

\* C25: has::<T>() is true exactly when get::<T>() is Some, and either of
\* them implies is_alive(); on an entity that is not alive get is None, has
\* is false, follow, follow_opt and parent are None and children is empty.
C25_HasGetIsAlive ==
  /\ obs.op = "has" =>
       /\ obs.res <=> IsSome(SubjGet(obs, obs.type))
       /\ obs.res => SubjIsAlive(obs)
  /\ (obs.op = "get" /\ IsSome(obs.res)) => SubjIsAlive(obs)
  /\ (obs.op \in {"get", "has", "follow", "follow_opt", "parent", "children"}
        /\ ~SubjIsAlive(obs)) =>
       CASE obs.op = "has" -> obs.res = FALSE
         [] obs.op = "children" -> obs.res = <<>>
         [] OTHER -> IsNone(obs.res)

\* has on a BoundEntity answered true.
C25_Witness ==
  /\ obs.op = "has" /\ obs.subj.kind = "bound" /\ obs.res = TRUE
  /\ obs.subj.entity \in alive[obs.world]

\* What a recorded get, has, is_alive, follow or follow_opt gives on the
\* BoundEntity b, and on the EntityPtr p.
BoundRead(o, b) ==
  CASE o.op = "get" -> BoundEntity_get(b, o.type)
    [] o.op = "has" -> BoundEntity_has(b, o.type)
    [] o.op = "is_alive" -> BoundEntity_is_alive(b)
    [] o.op = "follow" -> BoundEntity_follow(b, o.type, o.f)
    [] o.op = "follow_opt" -> BoundEntity_follow_opt(b, o.type, o.f)
PtrRead(o, p) ==
  CASE o.op = "get" -> EntityPtr_get(p, o.type)
    [] o.op = "has" -> EntityPtr_has(p, o.type)
    [] o.op = "is_alive" -> EntityPtr_is_alive(p)
    [] o.op = "follow" -> EntityPtr_follow(p, o.type, o.f)
    [] o.op = "follow_opt" -> EntityPtr_follow_opt(p, o.type, o.f)

RECURSIVE LongestPathFrom(_)
\* The number of edges on the longest downward path from an entity of S
\* through TreeChildren handles.
LongestPathFrom(S) ==
  IF TreeChildrenOf(S) = {} THEN 0 ELSE 1 + LongestPathFrom(TreeChildrenOf(S))

\* C27: tree_depth(n) is the number of edges on the longest downward path
\* from n through children handles: 0 for a node with no descendants, also
\* when the node carries a children component with an empty list, and
\* 1 + the maximum over the children otherwise.
C27_DepthIsLongestPath ==
  obs.op = "tree_depth" => Unwrap(obs.res) = LongestPathFrom({obs.subj.entity})

\* C28: a chain walk counts a stale node and stops at it: when a node x below
\* the start of the walk has been despawned and the nodes between are alive,
\* count_chain_length returns the nodes down to x, x included, and nothing
\* below x -- 3 from a in a -> b -> c -> d after despawn(c) -- because
\* follow_opt on next from the node above x is still Some(x) while follow_opt
\* from the dead x is None.
C28_WalkStopsAtStale ==
  /\ obs.op = "count_chain_length" =>
       /\ \A x \in ChainEnt :
            (/\ x < obs.subj.entity
             /\ x \notin alive[ChainWorld]
             /\ (x + 1)..obs.subj.entity \subseteq alive[ChainWorld]) =>
              obs.res[1] = obs.subj.entity - x + 1
       /\ (ChainHead = ChainLen /\ obs.subj.entity = ChainLen
             /\ alive[ChainWorld] = (1..ChainLen) \ {2}) => obs.res[1] = 3
  /\ (obs.op = "follow_opt" /\ obs.type = NextOf[1]) =>
       /\ (obs.subj.entity \in alive[ChainWorld] /\ obs.subj.entity > 1) =>
            /\ IsSome(obs.res)
            /\ Unwrap(obs.res).entity = obs.subj.entity - 1
       /\ obs.subj.entity \notin alive[ChainWorld] => IsNone(obs.res)

\* The chain of 4 was built, c was despawned, and the walk from a pointer
\* derived from a's handle afterwards returned 3.
C28_Witness ==
  /\ obs.op = "count_chain_length" /\ obs.subj.kind = "ptr"
  /\ ChainHead = ChainLen /\ obs.subj.entity = ChainLen
  /\ alive[ChainWorld] = (1..ChainLen) \ {2}
  /\ obs.res = <<3>>

\* C29: when find_root returns, on a Parent chain whose nodes are all alive it
\* returns the one node on the way up that has no Parent component; when a
\* node on the way up has been despawned it returns a pointer to that dead
\* node -- is_alive false, every get None -- and not the last alive node
\* below it nor any node above it.
C29_FindRootResult ==
  (obs.op = "find_root" /\ IsSome(obs.res)) =>
    LET r == Unwrap(obs.res)
        way == AncestorsFrom({obs.subj.entity})
        dead == way \ alive[RootWorld]
    IN /\ r.entity \in way /\ r.world = obs.subj.world
       /\ dead = {} =>
            /\ EntityPtr_is_alive(r)
            /\ IsNone(EntityPtr_get(r, "Parent"))
            /\ \A a \in way : IsNone(ParentOf(a)) => a = r.entity
       /\ dead # {} =>
            /\ dead = {r.entity}
            /\ ~EntityPtr_is_alive(r)
            /\ \A T \in {"Name", "Parent"} : IsNone(EntityPtr_get(r, T))
            /\ \A a \in alive[RootWorld] : a # r.entity

\* find_root from an alive node returned a pointer to a despawned ancestor
\* while a node that is no longer on the way up is alive.
C29_Witness ==
  /\ obs.op = "find_root" /\ IsSome(obs.res)
  /\ obs.subj.entity \in alive[RootWorld]
  /\ Despawned(RootWorld, Unwrap(obs.res).entity)
  /\ \E o \in alive[RootWorld] : o \notin AncestorsFrom({obs.subj.entity})

\* How many times the TreeChildren list of p names n.
TimesListed(p, n) ==
  LET c == World_get(TreeWorld, p, "TreeChildren")
  IN IF IsSome(c)
     THEN Cardinality({i \in 1..Len(Unwrap(c)) : Unwrap(c)[i] = EntityHandle_new(n)})
     ELSE 0
RECURSIVE PathsTo(_, _)
RECURSIVE PathsThrough(_, _, _)
\* The number of downward paths from r to n, a handle listed twice making two
\* paths; counted upward from n over the nodes p that list it.
PathsTo(r, n) == (IF n = r THEN 1 ELSE 0) + PathsThrough(r, n, n + 1)
PathsThrough(r, n, p) ==
  IF p > r THEN 0
  ELSE TimesListed(p, n) * PathsTo(r, p) + PathsThrough(r, n, p + 1)
RECURSIVE SumOverPaths(_, _)
\* Value times the number of paths from r, summed over the nodes 1..n; a node
\* that is despawned or has no Value counts 0.
SumOverPaths(r, n) ==
  IF n = 0 THEN 0
  ELSE LET v == World_get(TreeWorld, n, "Value")
       IN (IF IsSome(v) THEN Unwrap(v) ELSE 0) * PathsTo(r, n) + SumOverPaths(r, n - 1)

\* C30: sum_tree adds the Value of a node once for every path that reaches
\* it: a node listed by two parents, or twice in one list, is counted with
\* its subtree once per occurrence, and a child that is despawned or has no
\* Value adds 0 for itself while its siblings are still summed.
C30_SumCountsPaths ==
  obs.op = "sum_tree" => obs.res[1] = SumOverPaths(obs.subj.entity, obs.subj.entity)

\* sum_tree ran from a node whose list names the same child twice, the child
\* has a Value and the sum holds it twice.
C30_Witness ==
  /\ obs.op = "sum_tree" /\ obs.f = "-"
  /\ \E c \in DagEnt :
       /\ TimesListed(obs.subj.entity, c) = 2
       /\ IsSome(World_get(TreeWorld, c, "Value"))
       /\ obs.res[1] >= 2 * c

====
